---- MODULE Spec2Model ----
(***************************************************************************)
(* Model of the socket log viewer of src/socket_tui.py: the SocketTui app, *)
(* its start_server task, and one handle_client task per accepted          *)
(* connection, all running on one asyncio event loop.  One action is one   *)
(* run of a task between two suspension points (await).                    *)
(***************************************************************************)
EXTENDS Integers, Sequences, FiniteSets, TLC

(***************************************************************************)
(* Bounds and constants                                                    *)
(***************************************************************************)

\* Total number of bytes the peers send over all connections in one run.
MaxBytes == 2

\* reader.read(1024): the most bytes one read returns.
READ_LIMIT == 1024

\* Peer addresses (writer.get_extra_info('peername')) of the clients.
Addrs == {"A", "B"}

\* The line shown has no peer address in it.
NoAddr == "-"

\* The listener (start_server) or the app itself appended the entry.
NoTask == "-"

\* Bytes the clients send: "a" is a printable ASCII byte, "LF" is 0x0A and
\* "CR" is 0x0D.  "SP" (0x20), "TAB" (0x09), "xFF" (a byte that is not valid
\* UTF-8) and "xC3" "xA9" (the UTF-8 bytes of one character) are known to
\* the decoder and to strip.
Bytes == {"a", "LF", "CR"}

\* Characters that str.strip() removes among the ones above.
Whitespace == {"LF", "CR", "SP", "TAB"}

VARIABLES
    app,        \* "constructed" | "running" | "exited": the Textual app
    listener,   \* the start_server task: "idle" | "starting" | "serving" | "failed" | "cancelled"
    log,        \* the Log widget: the sequence of write_line calls
    pc,         \* pc[c]: the handle_client task of connection c
    stream,     \* stream[c]: "none" | "open" | "closed": the writer's transport
    peer,       \* peer[c]: "open" | "eof" | "reset": what the client has done to its end
    pending,    \* pending[c]: bytes the client has sent and the handler has not read
    sent,       \* sent[c]: every byte the client has sent (history)
    cancelReq,  \* cancelReq[c]: the task was cancelled and has not run since
    exit        \* exit[c]: how the read loop ended: "none" | "eof" | "error" | "cancel"

\* What lies outside the relay: one run of send_message, one run of the
\* chunk decoding of the read loop on its own, and one Gemini model object.
VARIABLES
    sender,     \* the run of send_message (src/send_tui_message.py)
    decoder,    \* one chunk taken through the body of the read loop
    gemini      \* the environment and the Gemini object of the auth tests

\* The demonstration programs and scripts, each run on its own.
VARIABLES
    storage,    \* the MockStorage object of src/demo_archive.py
    mover,      \* the mover agent's conversation with the mock model
    gate,       \* the run of the graph of src/demo_langgraph.py
    pipe,       \* the run of the graph of src/demo_langgraph_error.py
    monitor,    \* the run of the graph of src/demo_monitor_backup.py
    gcs,        \* one call of move_files_to_bucket (src/gcs_tools.py)
    sync        \* the files src/scripts/sync_gemini_config.py reads and writes

relay == <<app, listener, log, pc, stream, peer, pending, sent, cancelReq, exit>>

demos == <<storage, mover, gate, pipe, monitor, gcs, sync>>

outside == <<sender, decoder, gemini, demos>>

vars == <<app, listener, log, pc, stream, peer, pending, sent, cancelReq, exit,
          sender, decoder, gemini, storage, mover, gate, pipe, monitor, gcs, sync>>

\* The sender has not been invoked, no chunk is being decoded, no model
\* object exists.
SenderOff == [pc |-> "off", msg |-> <<>>, conn |-> FALSE, wire |-> <<>>,
              out |-> <<>>, connects |-> 0, writes |-> 0]
DecoderOff == [pc |-> "off", data |-> <<>>, out |-> <<>>]
GeminiOff == [pc |-> "off", key |-> "unset", project |-> "unset",
              location |-> "unset", clients |-> <<>>, accesses |-> 0]

(***************************************************************************)
(* Pure helpers                                                            *)
(***************************************************************************)

Min(a, b) == IF a < b THEN a ELSE b

SetMin(S) == CHOOSE x \in S : \A y \in S : x <= y
SetMax(S) == CHOOSE x \in S : \A y \in S : x >= y

IsPrefix(s, t) == Len(s) <= Len(t) /\ SubSeq(t, 1, Len(s)) = s

\* The total number of bytes sent so far, over all connections.
RECURSIVE SumLen(_, _)
SumLen(f, S) ==
    IF S = {} THEN 0
    ELSE LET c == CHOOSE x \in S : TRUE IN Len(f[c]) + SumLen(f, S \ {c})

\* data.decode('utf-8', errors='replace'): an ASCII byte is its character,
\* the two bytes 0xC3 0xA9 together are the character "e_acute", and a byte
\* that is not part of a valid sequence becomes U+FFFD.
DecodeByte(b) == IF b \in {"xFF", "xC3", "xA9"} THEN "FFFD" ELSE b

RECURSIVE Decode(_)
Decode(data) ==
    IF data = <<>> THEN <<>>
    ELSE IF Len(data) >= 2 /\ data[1] = "xC3" /\ data[2] = "xA9"
         THEN <<"e_acute">> \o Decode(SubSeq(data, 3, Len(data)))
         ELSE <<DecodeByte(data[1])>> \o Decode(Tail(data))

\* str.strip(): drops the leading and the trailing whitespace, keeps the rest.
Strip(s) ==
    LET keep == {i \in 1..Len(s) : s[i] \notin Whitespace}
    IN  IF keep = {} THEN <<>> ELSE SubSeq(s, SetMin(keep), SetMax(keep))

\* message = data.decode('utf-8', errors='replace').strip()
Message(data) == Strip(Decode(data))

\* The files MockStorage.__init__ puts in the mock directory.
InitialFiles == {"report_current.txt", "access_logs_2020.log", "temp_data_old.tmp",
                 "project_specs.pdf"}

\* storage = MockStorage(): the four files, an empty bucket, no call made.
StorageNew == [files |-> InitialFiles, bucket |-> <<>>, args |-> <<>>,
               moved |-> <<>>, not_found |-> <<>>, calls |-> 0]

\* The programs that have not been started.
MoverOff == [pc |-> "off", demo |-> "none", contents |-> <<>>, llm_calls |-> 0,
             tool_calls |-> <<>>]
GateOff == [pc |-> "off", topic |-> <<>>, todo |-> {}, ran |-> <<>>,
            writes |-> [benefits |-> "", risks |-> ""],
            state |-> [status |-> "", benefits |-> "", risks |-> "", final_report |-> ""]]
PipeOff == [pc |-> "off", ran |-> <<>>,
            state |-> [step |-> "start", artifact |-> <<>>, backup_status |-> "unknown",
                       error |-> "None", alert_sent |-> FALSE]]
MonitorOff == [pc |-> "off", ran |-> <<>>, local |-> {}, removed |-> {}, tool |-> <<>>,
               state |-> [disk_usage_percent |-> 0, files_to_backup |-> <<>>,
                          backup_status |-> "unknown", message |-> "Monitoring active"]]
GcsOff == [pc |-> "off", filenames |-> <<>>, ran |-> <<>>, results |-> <<>>,
           returned |-> <<>>]
SyncOff == [pc |-> "off", runs |-> 0]

(***************************************************************************)
(* Log entries: one per write_line call.  kind and by are bookkeeping: the *)
(* format of the line and the task that wrote it.  addr is the address the *)
(* line shows, text the message the line shows.                            *)
(***************************************************************************)

Entry(kind, by, addr, text) == [kind |-> kind, by |-> by, addr |-> addr, text |-> text]

\* "Initializing server..."
InitEntry == Entry("init", NoTask, NoAddr, <<>>)

\* "Listening on 0.0.0.0:9000..."
ListeningEntry == Entry("listening", NoTask, NoAddr, <<>>)

\* f"Error starting server: {e}"
BindErrorEntry == Entry("bind_error", NoTask, NoAddr, <<>>)

\* f"Connection from {addr}"
ConnectionEntry(c) == Entry("connection", c, c, <<>>)

\* The line tagged with an address kept in one place for all handlers: the
\* address of the connection accepted last.
DataEntry_SharedAddr(c, message) ==
    LET conns == {i \in 1..Len(log) : log[i].kind = "connection"}
    IN  Entry("data", c, log[SetMax(conns)].addr, message)

\* f"{addr}: {message}"
DataEntry(c, message) == Entry("data", c, c, message)

\* f"Error: {e}"
ErrorEntry(c) == Entry("error", c, NoAddr, <<>>)

\* f"Closed connection from {addr}"
ClosedEntry(c) == Entry("closed", c, c, <<>>)

\* A write that lands on the line another task has just written.
WriteLine_Lossy(lg, e) ==
    IF Len(lg) > 0 /\ lg[Len(lg)].by \in Addrs /\ e.by \in Addrs /\ lg[Len(lg)].by # e.by
    THEN [lg EXCEPT ![Len(lg)] = e]
    ELSE Append(lg, e)

\* A log that keeps its last four lines and drops the oldest one.
WriteLine_Evict(lg, e) == IF Len(lg) >= 4 THEN Append(Tail(lg), e) ELSE Append(lg, e)

\* self.log_widget.write_line(line)
WriteLine(lg, e) == Append(lg, e)

(***************************************************************************)
(* Initial state: the app object is constructed, nothing has run.          *)
(***************************************************************************)

\* The relay before on_mount.
RelayInit ==
    /\ app = "constructed"
    /\ listener = "idle"
    /\ log = <<>>
    /\ pc = [c \in Addrs |-> "unconnected"]
    /\ stream = [c \in Addrs |-> "none"]
    /\ peer = [c \in Addrs |-> "open"]
    /\ pending = [c \in Addrs |-> <<>>]
    /\ sent = [c \in Addrs |-> <<>>]
    /\ cancelReq = [c \in Addrs |-> FALSE]
    /\ exit = [c \in Addrs |-> "none"]

Init ==
    /\ RelayInit
    /\ sender = SenderOff
    /\ decoder = DecoderOff
    /\ gemini = GeminiOff
    /\ storage = StorageNew
    /\ mover = MoverOff
    /\ gate = GateOff
    /\ pipe = PipeOff
    /\ monitor = MonitorOff
    /\ gcs = GcsOff
    /\ sync = SyncOff

(***************************************************************************)
(* The app and the listener                                                *)
(***************************************************************************)

\* on_mount: writes "Initializing server..." and creates the start_server task.
OnMount ==
    /\ app = "constructed"
    /\ app' = "running"
    /\ log' = WriteLine(log, InitEntry)
    /\ listener' = "starting"
    /\ UNCHANGED <<pc, stream, peer, pending, sent, cancelReq, exit>>
    /\ UNCHANGED outside

\* The bind succeeds and the task goes on to serve without a line.
StartServerOk_Silent ==
    /\ listener = "starting"
    /\ listener' = "serving"
    /\ UNCHANGED <<app, log, pc, stream, peer, pending, sent, cancelReq, exit>>
    /\ UNCHANGED outside

\* start_server, the bind succeeds: asyncio.start_server returns, the task
\* writes "Listening on ..." and suspends in serve_forever.
StartServerOk ==
    /\ listener = "starting"
    /\ listener' = "serving"
    /\ log' = WriteLine(log, ListeningEntry)
    /\ UNCHANGED <<app, pc, stream, peer, pending, sent, cancelReq, exit>>
    /\ UNCHANGED outside

\* The bind failure is reported and the bind is tried again.
StartServerFail_Retry ==
    /\ listener = "starting"
    /\ log' = WriteLine(log, BindErrorEntry)
    /\ UNCHANGED <<app, listener, pc, stream, peer, pending, sent, cancelReq, exit>>
    /\ UNCHANGED outside

\* start_server, the bind fails: asyncio.start_server raises OSError, the
\* except clause writes "Error starting server: ..." and the task ends.
StartServerFail ==
    /\ listener = "starting"
    /\ listener' = "failed"
    /\ log' = WriteLine(log, BindErrorEntry)
    /\ UNCHANGED <<app, pc, stream, peer, pending, sent, cancelReq, exit>>
    /\ UNCHANGED outside

\* Connections are taken while the bind is still in progress.
Accept_BeforeListening(c) ==
    /\ listener \in {"starting", "serving"}
    /\ pc[c] = "unconnected"
    /\ pc' = [pc EXCEPT ![c] = "read"]
    /\ stream' = [stream EXCEPT ![c] = "open"]
    /\ log' = WriteLine(log, ConnectionEntry(c))
    /\ UNCHANGED <<app, listener, peer, pending, sent, cancelReq, exit>>
    /\ UNCHANGED outside

\* Two handlers are started for the one connection; each writes its line.
Accept_TwoHandlers(c) ==
    /\ listener = "serving"
    /\ pc[c] = "unconnected"
    /\ pc' = [pc EXCEPT ![c] = "read"]
    /\ stream' = [stream EXCEPT ![c] = "open"]
    /\ log' = WriteLine(WriteLine(log, ConnectionEntry(c)), ConnectionEntry(c))
    /\ UNCHANGED <<app, listener, peer, pending, sent, cancelReq, exit>>
    /\ UNCHANGED outside

\* The listener runs the handler itself and accepts again once it is done.
Accept_Serial(c) ==
    /\ listener = "serving"
    /\ pc[c] = "unconnected"
    /\ \A d \in Addrs : pc[d] \notin {"read", "wait_closed"}
    /\ pc' = [pc EXCEPT ![c] = "read"]
    /\ stream' = [stream EXCEPT ![c] = "open"]
    /\ log' = WriteLine(log, ConnectionEntry(c))
    /\ UNCHANGED <<app, listener, peer, pending, sent, cancelReq, exit>>
    /\ UNCHANGED outside

\* serve_forever accepts the connection of client c and starts handle_client
\* for it, which records the peer address, writes "Connection from ..." and
\* suspends in its first reader.read.
Accept(c) ==
    /\ listener = "serving"
    /\ pc[c] = "unconnected"
    /\ pc' = [pc EXCEPT ![c] = "read"]
    /\ stream' = [stream EXCEPT ![c] = "open"]
    /\ log' = WriteLine(log, ConnectionEntry(c))
    /\ UNCHANGED <<app, listener, peer, pending, sent, cancelReq, exit>>
    /\ UNCHANGED outside

(***************************************************************************)
(* The clients                                                             *)
(***************************************************************************)

\* Client c writes one byte to its connection.  Once the relay has closed the
\* stream nothing the client does reaches the program.
PeerSend(c, b) ==
    /\ stream[c] = "open"
    /\ peer[c] = "open"
    /\ SumLen(sent, Addrs) < MaxBytes
    /\ sent' = [sent EXCEPT ![c] = Append(@, b)]
    /\ pending' = [pending EXCEPT ![c] = Append(@, b)]
    /\ UNCHANGED <<app, listener, log, pc, stream, peer, cancelReq, exit>>
    /\ UNCHANGED outside

\* Client c closes its end of the connection (end of stream).
PeerClose(c) ==
    /\ stream[c] = "open"
    /\ peer[c] = "open"
    /\ peer' = [peer EXCEPT ![c] = "eof"]
    /\ UNCHANGED <<app, listener, log, pc, stream, pending, sent, cancelReq, exit>>
    /\ UNCHANGED outside

\* The connection of client c breaks (reset by peer): the next read raises.
PeerReset(c) ==
    /\ stream[c] = "open"
    /\ peer[c] = "open"
    /\ peer' = [peer EXCEPT ![c] = "reset"]
    /\ UNCHANGED <<app, listener, log, pc, stream, pending, sent, cancelReq, exit>>
    /\ UNCHANGED outside

(***************************************************************************)
(* handle_client                                                           *)
(***************************************************************************)

\* The loop body without the test of the stripped text.
OnData_NoEmptyCheck(lg, c, data) == WriteLine(lg, DataEntry(c, Message(data)))

\* The loop body on a chunk: the stripped text is written when it is not empty.
OnData(lg, c, data) ==
    IF Message(data) # <<>> THEN WriteLine(lg, DataEntry(c, Message(data))) ELSE lg

\* The finally clause without writer.close().
Finally_NoClose(lg, c) ==
    /\ log' = WriteLine(lg, ClosedEntry(c))
    /\ stream' = stream
    /\ pc' = [pc EXCEPT ![c] = "wait_closed"]

\* The finally clause up to its await, entered with the log lg: it writes
\* "Closed connection from ...", calls writer.close() and suspends in
\* writer.wait_closed().
Finally(lg, c) ==
    /\ log' = WriteLine(lg, ClosedEntry(c))
    /\ stream' = [stream EXCEPT ![c] = "closed"]
    /\ pc' = [pc EXCEPT ![c] = "wait_closed"]

\* A strict decode: a chunk that is not valid UTF-8 raises in the loop body,
\* which the except clause reports before the finally clause closes.
HandlerRead_StrictDecode(c, k) ==
    /\ pc[c] = "read"
    /\ ~cancelReq[c]
    /\ peer[c] # "reset"
    /\ k \in 1..Min(Len(pending[c]), READ_LIMIT)
    /\ pending' = [pending EXCEPT ![c] = SubSeq(@, k + 1, Len(@))]
    /\ IF \E i \in 1..k : pending[c][i] \in {"xFF", "xC3", "xA9"}
       THEN /\ Finally(WriteLine(log, ErrorEntry(c)), c)
            /\ exit' = [exit EXCEPT ![c] = "error"]
            /\ UNCHANGED <<app, listener, peer, sent, cancelReq>>
       ELSE /\ log' = OnData(log, c, SubSeq(pending[c], 1, k))
            /\ UNCHANGED <<app, listener, pc, stream, peer, sent, cancelReq, exit>>
    /\ UNCHANGED outside

\* reader.read(1024) returns the first k bytes the client sent (what has
\* arrived), the loop body runs on them and the task suspends in the next read.
HandlerRead(c, k) ==
    /\ pc[c] = "read"
    /\ ~cancelReq[c]
    /\ peer[c] # "reset"
    /\ k \in 1..Min(Len(pending[c]), READ_LIMIT)
    /\ log' = OnData(log, c, SubSeq(pending[c], 1, k))
    /\ pending' = [pending EXCEPT ![c] = SubSeq(@, k + 1, Len(@))]
    /\ UNCHANGED <<app, listener, pc, stream, peer, sent, cancelReq, exit>>
    /\ UNCHANGED outside

\* The empty read does not leave the loop: the handler reads again.
HandlerEof_NoBreak(c) ==
    /\ pc[c] = "read"
    /\ ~cancelReq[c]
    /\ peer[c] = "eof"
    /\ pending[c] = <<>>
    /\ UNCHANGED vars

\* reader.read(1024) returns b'' at the end of the stream: break, then the
\* finally clause.
HandlerEof(c) ==
    /\ pc[c] = "read"
    /\ ~cancelReq[c]
    /\ peer[c] = "eof"
    /\ pending[c] = <<>>
    /\ Finally(log, c)
    /\ exit' = [exit EXCEPT ![c] = "eof"]
    /\ UNCHANGED <<app, listener, peer, pending, sent, cancelReq>>
    /\ UNCHANGED outside

\* The read error without an except clause: only the finally clause runs.
HandlerError_Uncaught(c) ==
    /\ pc[c] = "read"
    /\ ~cancelReq[c]
    /\ peer[c] = "reset"
    /\ Finally(log, c)
    /\ exit' = [exit EXCEPT ![c] = "error"]
    /\ UNCHANGED <<app, listener, peer, pending, sent, cancelReq>>
    /\ UNCHANGED outside

\* The read error of one connection takes the listener down with it.
HandlerError_StopsListener(c) ==
    /\ pc[c] = "read"
    /\ ~cancelReq[c]
    /\ peer[c] = "reset"
    /\ Finally(WriteLine(log, ErrorEntry(c)), c)
    /\ exit' = [exit EXCEPT ![c] = "error"]
    /\ listener' = "failed"
    /\ UNCHANGED <<app, peer, pending, sent, cancelReq>>
    /\ UNCHANGED outside

\* reader.read(1024) raises: the except clause writes "Error: ...", then the
\* finally clause runs.
HandlerError(c) ==
    /\ pc[c] = "read"
    /\ ~cancelReq[c]
    /\ peer[c] = "reset"
    /\ Finally(WriteLine(log, ErrorEntry(c)), c)
    /\ exit' = [exit EXCEPT ![c] = "error"]
    /\ UNCHANGED <<app, listener, peer, pending, sent, cancelReq>>
    /\ UNCHANGED outside

\* The task is cancelled while suspended in reader.read: CancelledError is no
\* Exception, so only the finally clause runs.
HandlerCancelled(c) ==
    /\ pc[c] = "read"
    /\ cancelReq[c]
    /\ Finally(log, c)
    /\ exit' = [exit EXCEPT ![c] = "cancel"]
    /\ cancelReq' = [cancelReq EXCEPT ![c] = FALSE]
    /\ UNCHANGED <<app, listener, peer, pending, sent>>
    /\ UNCHANGED outside

\* After the close the handler goes back to reading.
WaitClosed_Reread(c) ==
    /\ pc[c] = "wait_closed"
    /\ pc' = [pc EXCEPT ![c] = "read"]
    /\ cancelReq' = [cancelReq EXCEPT ![c] = FALSE]
    /\ UNCHANGED <<app, listener, log, stream, peer, pending, sent, exit>>
    /\ UNCHANGED outside

\* writer.wait_closed() returns, raises the connection's error, or is
\* cancelled: in each case the task ends without another line.
WaitClosed(c) ==
    /\ pc[c] = "wait_closed"
    /\ pc' = [pc EXCEPT ![c] = "done"]
    /\ cancelReq' = [cancelReq EXCEPT ![c] = FALSE]
    /\ UNCHANGED <<app, listener, log, stream, peer, pending, sent, exit>>
    /\ UNCHANGED outside

(***************************************************************************)
(* Shutdown: the quit binding ends app.run(), which cancels the tasks that *)
(* are still suspended.                                                    *)
(***************************************************************************)

Quit ==
    /\ app = "running"
    /\ app' = "exited"
    /\ listener' = IF listener \in {"starting", "serving"} THEN "cancelled" ELSE listener
    /\ cancelReq' = [c \in Addrs |-> pc[c] \in {"read", "wait_closed"}]
    /\ UNCHANGED <<log, pc, stream, peer, pending, sent, exit>>
    /\ UNCHANGED outside

Next ==
    \/ OnMount
    \/ StartServerOk
    \/ StartServerFail
    \/ Quit
    \/ \E c \in Addrs : Accept(c)
    \/ \E c \in Addrs : \E b \in Bytes : PeerSend(c, b)
    \/ \E c \in Addrs : PeerClose(c)
    \/ \E c \in Addrs : PeerReset(c)
    \/ \E c \in Addrs : \E k \in 1..MaxBytes + 1 : HandlerRead(c, k)
    \/ \E c \in Addrs : HandlerEof(c)
    \/ \E c \in Addrs : HandlerError(c)
    \/ \E c \in Addrs : HandlerCancelled(c)
    \/ \E c \in Addrs : WaitClosed(c)

Spec == Init /\ [][Next]_vars

(***************************************************************************)
(* Reading the log                                                         *)
(***************************************************************************)

\* The entries of kind k that task c wrote, in log order.
EntriesOf(c, k) == SelectSeq(log, LAMBDA e : e.by = c /\ e.kind = k)

\* Every entry task c wrote, in log order.
EntriesBy(c) == SelectSeq(log, LAMBDA e : e.by = c)

\* The texts of the data entries that show address c, in log order.
DataTexts(c) ==
    LET es == SelectSeq(log, LAMBDA e : e.kind = "data" /\ e.addr = c)
    IN  [i \in 1..Len(es) |-> es[i].text]

\* The number of entries of kind k in the whole log.
CountKind(k) == Cardinality({i \in 1..Len(log) : log[i].kind = k})

\* The bytes of client c that reads have returned to its handler.
Consumed(c) == SubSeq(sent[c], 1, Len(sent[c]) - Len(pending[c]))

\* s occurs in t as a contiguous run.
IsSubstring(s, t) ==
    \E i \in 0..(Len(t) - Len(s)) : SubSeq(t, i + 1, i + Len(s)) = s

(***************************************************************************)
(* The line framing the specification describes: the text is cut at each   *)
(* newline, a line is what lies between two cuts with one trailing         *)
(* carriage return removed, and what follows the last newline is no line.  *)
(***************************************************************************)

StripCR(s) ==
    IF Len(s) > 0 /\ s[Len(s)] = "CR" THEN SubSeq(s, 1, Len(s) - 1) ELSE s

RECURSIVE NewlineLines(_)
NewlineLines(s) ==
    LET nl == {i \in 1..Len(s) : s[i] = "LF"}
    IN  IF nl = {} THEN <<>>
        ELSE <<StripCR(SubSeq(s, 1, SetMin(nl) - 1))>>
             \o NewlineLines(SubSeq(s, SetMin(nl) + 1, Len(s)))

\* The lines the framing yields for what the handler of c has read so far.
LinesRead(c) == NewlineLines(Decode(Consumed(c)))

(***************************************************************************)
(* Claims                                                                  *)
(***************************************************************************)

\* C1: for every connection and every way the byte stream was cut into
\* reads, the data entries of the connection are exactly the newline
\* terminated lines read so far, in order, each with a trailing CR removed:
\* n newlines give n entries, whatever the chunk boundaries.
C1_LinesPerNewline == \A c \in Addrs : DataTexts(c) = LinesRead(c)

\* C2: bytes not yet followed by a newline never appear in a log entry: a
\* connection has no more data entries than newlines read, and every data
\* entry is one of the newline terminated lines of what the client sent.
C2_NoPartialLine ==
    \A c \in Addrs :
        /\ Len(DataTexts(c)) <= Len(LinesRead(c))
        /\ \A i \in 1..Len(DataTexts(c)) :
               \E j \in 1..Len(LinesRead(c)) : DataTexts(c)[i] = LinesRead(c)[j]

\* C3: every data entry that shows the address of a connection is made only
\* of bytes that connection sent: its text is a contiguous run of the decoded
\* bytes of that client, for any interleaving of the two connections' reads.
C3_NoCrossConnectionBytes ==
    \A i \in 1..Len(log) :
        log[i].kind = "data" =>
            /\ log[i].addr \in Addrs
            /\ IsSubstring(log[i].text, Decode(sent[log[i].addr]))

\* C3 witness: both connections are open and suspended in a read, and the
\* log holds a data entry of one followed by a data entry of the other.
C3_Witness ==
    \E i, j \in 1..Len(log) :
        /\ i < j
        /\ log[i].kind = "data" /\ log[j].kind = "data"
        /\ log[j].addr # log[i].addr
        /\ \A c \in Addrs : pc[c] = "read"

C5_ClosedOnceAndLast ==
    /\ \A c \in Addrs : (peer[c] = "eof") ~> (Len(EntriesOf(c, "closed")) = 1)
    /\ [](\A c \in Addrs : Len(EntriesOf(c, "closed")) <= 1)
    /\ [][\A c \in Addrs :
              Len(EntriesOf(c, "closed")) = 1 => EntriesBy(c)' = EntriesBy(c)]_vars

\* C5 witness: a client closed its end after sending data, and its handler
\* has logged the data and then its one "Closed connection" entry.
C5_Witness ==
    \E c \in Addrs :
        /\ peer[c] = "eof"
        /\ exit[c] = "eof"
        /\ Len(EntriesOf(c, "data")) >= 1
        /\ Len(EntriesOf(c, "closed")) = 1
        /\ pc[c] = "done"

\* C6: the log is append-only: in every step the earlier log is a prefix of
\* the later one, so no entry is reordered, changed or deleted and entries
\* stand in the order of the write_line calls.
C6_AppendOnly == [][IsPrefix(log, log')]_vars

\* C6 witness: the log holds entries of the app, the listener and both
\* handlers, data and closed entries among them.
C6_Witness ==
    /\ CountKind("init") = 1
    /\ CountKind("listening") = 1
    /\ \A c \in Addrs : Len(EntriesOf(c, "data")) >= 1
    /\ \E c \in Addrs : Len(EntriesOf(c, "closed")) = 1

\* The handler of c is suspended in a read that cannot complete: the client
\* is connected, has sent nothing that is unread and has not closed.
Stalled(c) ==
    /\ pc[c] = "read"
    /\ ~cancelReq[c]
    /\ peer[c] = "open"
    /\ pending[c] = <<>>

\* C7: while a connection is stalled the listener can still accept a client
\* that is not yet connected, and the handler of every other connection
\* that has unread bytes can still read them.
C7_StalledBlocksNobody ==
    \A c \in Addrs :
        Stalled(c) =>
            \A d \in Addrs \ {c} :
                /\ (listener = "serving" /\ pc[d] = "unconnected")
                       => ENABLED Accept(d)
                /\ (pc[d] = "read" /\ ~cancelReq[d] /\ peer[d] # "reset"
                        /\ pending[d] # <<>>)
                       => ENABLED HandlerRead(d, 1)

\* C7 witness: one connection is stalled while the other one, accepted
\* after it, has logged a line and has more bytes to read.
C7_Witness ==
    \E c \in Addrs : \E d \in Addrs \ {c} :
        /\ Stalled(c)
        /\ \E i, j \in 1..Len(log) :
               /\ i < j
               /\ log[i] = ConnectionEntry(c)
               /\ log[j] = ConnectionEntry(d)
        /\ Len(EntriesOf(d, "data")) >= 1
        /\ pending[d] # <<>>

\* C8: the step in which the read of connection c raises appends exactly
\* the "Error: ..." entry and the "Closed connection" entry of c, ends the
\* handler of c, and leaves the listener and the handler, stream and unread
\* bytes of every other connection as they were.
C8_ReadErrorIsLocal ==
    [][\A c \in Addrs :
          (exit[c] = "none" /\ exit'[c] = "error") =>
              /\ log' = log \o <<ErrorEntry(c), ClosedEntry(c)>>
              /\ listener' = listener
              /\ \A d \in Addrs \ {c} :
                     /\ pc'[d] = pc[d]
                     /\ stream'[d] = stream[d]
                     /\ pending'[d] = pending[d]
      ]_vars

\* C8 witness: the read of one connection has failed, the listener is still
\* serving, and the other connection has logged a line after the failure.
C8_Witness ==
    \E c \in Addrs : \E d \in Addrs \ {c} :
        /\ exit[c] = "error"
        /\ listener = "serving"
        /\ pc[d] = "read"
        /\ \E i, j \in 1..Len(log) :
               /\ i < j
               /\ log[i] = ErrorEntry(c)
               /\ log[j].kind = "data" /\ log[j].by = d

\* C9: a handler that has left its read loop, by whichever path, has
\* written its "Closed connection" entry as its last entry and has closed
\* its stream.
C9_ClosedAndReleased ==
    \A c \in Addrs :
        pc[c] \in {"wait_closed", "done"} =>
            /\ exit[c] \in {"eof", "error", "cancel"}
            /\ stream[c] = "closed"
            /\ Len(EntriesOf(c, "closed")) = 1
            /\ EntriesBy(c)[Len(EntriesBy(c))] = ClosedEntry(c)

\* C9 witness: both handlers have finished, one by cancellation at shutdown
\* and one by a read error.
C9_Witness ==
    \E c \in Addrs : \E d \in Addrs \ {c} :
        /\ exit[c] = "cancel" /\ pc[c] = "done"
        /\ exit[d] = "error" /\ pc[d] = "done"

\* C10: once the bind has failed the log holds exactly one entry reporting
\* it and no "Listening on" entry, no connection has been accepted, the
\* listener task has ended for good, and the failing step leaves the app
\* running.
C10_BindFailure ==
    /\ [](CountKind("bind_error") >= 1 =>
              /\ CountKind("bind_error") = 1
              /\ CountKind("listening") = 0
              /\ CountKind("connection") = 0
              /\ \A c \in Addrs : pc[c] = "unconnected"
              /\ listener = "failed")
    /\ [][CountKind("bind_error")' > CountKind("bind_error") =>
              app = "running" /\ app' = "running"]_vars

\* C10 witness: the bind has failed and the app is still running.
C10_Witness ==
    /\ listener = "failed"
    /\ app = "running"
    /\ CountKind("bind_error") = 1

(***************************************************************************)
(* The event loop runs every task that is ready: a handler whose read can  *)
(* return, raise or be cancelled, or whose wait_closed can return, runs.   *)
(***************************************************************************)

HandlerStep(c) ==
    \/ \E k \in 1..MaxBytes + 1 : HandlerRead(c, k)
    \/ HandlerEof(c)
    \/ HandlerError(c)
    \/ HandlerCancelled(c)
    \/ WaitClosed(c)

FairSpec == Spec /\ \A c \in Addrs : WF_vars(HandlerStep(c))


\* C11: each transition appends exactly one entry of its own: the step in
\* which the listener starts serving appends the "Listening on" line, the
\* step that accepts a connection its "Connection from" line, the step in
\* which a handler leaves its read loop one "Closed connection" line, and
\* the step of a read error one "Error:" line; no other step appends a line
\* of these kinds, and no connection has two lines of one of these kinds.
C11_OneEntryPerTransition ==
    /\ [](/\ CountKind("listening") <= 1
          /\ \A c \in Addrs : \A k \in {"connection", "error", "closed"} :
                 Len(EntriesOf(c, k)) <= 1)
    /\ [][/\ CountKind("listening")' = CountKind("listening")
               + (IF listener = "starting" /\ listener' = "serving" THEN 1 ELSE 0)
          /\ \A c \in Addrs :
                 /\ Len(EntriesOf(c, "connection"))' = Len(EntriesOf(c, "connection"))
                        + (IF pc[c] = "unconnected" /\ pc'[c] # "unconnected"
                           THEN 1 ELSE 0)
                 /\ Len(EntriesOf(c, "closed"))' = Len(EntriesOf(c, "closed"))
                        + (IF pc[c] = "read" /\ pc'[c] # "read" THEN 1 ELSE 0)
                 /\ Len(EntriesOf(c, "error"))' = Len(EntriesOf(c, "error"))
                        + (IF exit[c] = "none" /\ exit'[c] = "error" THEN 1 ELSE 0)
         ]_vars

\* C11 witness: the listener started, a connection was accepted, its read
\* failed and it was closed: the log holds one line for each of the four.
C11_Witness ==
    \E c \in Addrs :
        /\ CountKind("listening") = 1
        /\ exit[c] = "error"
        /\ Len(EntriesOf(c, "connection")) = 1
        /\ Len(EntriesOf(c, "error")) = 1
        /\ Len(EntriesOf(c, "closed")) = 1


(***************************************************************************)
(* send_message (src/send_tui_message.py): one run of the sender against   *)
(* the relay.  The sender is the client with the address SenderAddr.       *)
(***************************************************************************)

\* The longest message the sender is given.
MaxMsgLen == 2

\* host='localhost', port=9000
HOST == "localhost"
PORT == 9000

SenderAddr == "A"

\* Characters of the messages.
MsgChars == {"a", "LF", "SP", "e_acute"}

Messages == UNION {[1..n -> MsgChars] : n \in 0..MaxMsgLen}

\* message.encode('utf-8')
EncodeChar(ch) == IF ch = "e_acute" THEN <<"xC3", "xA9">> ELSE <<ch>>

RECURSIVE Encode(_)
Encode(m) == IF m = <<>> THEN <<>> ELSE EncodeChar(m[1]) \o Encode(Tail(m))

\* message.endswith('\n')
EndsWithNewline(m) == Len(m) > 0 /\ m[Len(m)] = "LF"

\* A newline is appended whatever the message ends with.
Normalise_Always(m) == Append(m, "LF")

\* if not message.endswith('\n'): message += '\n'
Normalise(m) == IF EndsWithNewline(m) THEN m ELSE Append(m, "LF")

\* print(f"Sent: {message.strip()}"), message being the normalised one
SentLine(m) == [kind |-> "sent", host |-> HOST, port |-> PORT, text |-> Strip(Normalise(m))]

\* print(f"Error: Could not connect to {host}:{port}. Is the TUI running?")
RefusedLine == [kind |-> "refused", host |-> HOST, port |-> PORT, text |-> <<>>]

\* print(f"Error: {e}")
OtherErrorLine == [kind |-> "error", host |-> "-", port |-> 0, text |-> <<>>]

\* The bytes b reach the relay's end of the sender's connection.
Deliver(b) ==
    /\ pending' = [pending EXCEPT ![SenderAddr] = @ \o b]
    /\ sent' = [sent EXCEPT ![SenderAddr] = @ \o b]

\* send_message(message=m) is called.
SenderInvoke(m) ==
    /\ sender.pc = "off"
    /\ sender' = [sender EXCEPT !.pc = "start", !.msg = m]
    /\ UNCHANGED <<app, listener, log, pc, stream, peer, pending, sent, cancelReq, exit>>
    /\ UNCHANGED <<decoder, gemini, demos>>

\* s.connect((host, port)) succeeds: the relay is listening.
SenderConnectOk ==
    /\ sender.pc = "start"
    /\ listener = "serving"
    /\ sender' = [sender EXCEPT !.pc = "connected", !.conn = TRUE,
                                !.connects = @ + 1]
    /\ UNCHANGED <<app, listener, log, pc, stream, peer, pending, sent, cancelReq, exit>>
    /\ UNCHANGED <<decoder, gemini, demos>>

\* After a refusal the connection is tried again.
SenderConnectRefused_Retry ==
    /\ sender.pc = "start"
    /\ listener # "serving"
    /\ sender.connects < 3
    /\ sender' = [sender EXCEPT !.connects = @ + 1,
                                !.out = Append(@, RefusedLine)]
    /\ UNCHANGED <<app, listener, log, pc, stream, peer, pending, sent, cancelReq, exit>>
    /\ UNCHANGED <<decoder, gemini, demos>>

\* The refusal handled like any other exception.
SenderConnectRefused_Generic ==
    /\ sender.pc = "start"
    /\ listener # "serving"
    /\ sender' = [sender EXCEPT !.pc = "returned", !.connects = @ + 1,
                                !.out = Append(@, OtherErrorLine)]
    /\ UNCHANGED <<app, listener, log, pc, stream, peer, pending, sent, cancelReq, exit>>
    /\ UNCHANGED <<decoder, gemini, demos>>

\* s.connect raises ConnectionRefusedError: nothing listens on the port.  The
\* except clause prints its line and send_message returns.
SenderConnectRefused ==
    /\ sender.pc = "start"
    /\ listener # "serving"
    /\ sender' = [sender EXCEPT !.pc = "returned", !.connects = @ + 1,
                                !.out = Append(@, RefusedLine)]
    /\ UNCHANGED <<app, listener, log, pc, stream, peer, pending, sent, cancelReq, exit>>
    /\ UNCHANGED <<decoder, gemini, demos>>

\* The message is normalised, s.sendall writes all of it and "Sent: ..." is
\* printed.
SenderSendAll ==
    /\ sender.pc = "connected"
    /\ Deliver(Encode(Normalise(sender.msg)))
    /\ sender' = [sender EXCEPT !.pc = "sent", !.writes = @ + 1,
                                !.wire = Encode(Normalise(sender.msg)),
                                !.out = Append(@, SentLine(sender.msg))]
    /\ UNCHANGED <<app, listener, log, pc, stream, peer, cancelReq, exit>>
    /\ UNCHANGED <<decoder, gemini, demos>>

\* s.sendall raises after k bytes, the relay having closed its end: the
\* except clause prints "Error: ...", the with block closes the socket and
\* send_message returns.
SenderSendFail(k) ==
    /\ sender.pc = "connected"
    /\ stream[SenderAddr] = "closed"
           \/ (stream[SenderAddr] = "none" /\ listener = "cancelled")
    /\ k \in 0..(Len(Encode(Normalise(sender.msg))) - 1)
    /\ Deliver(SubSeq(Encode(Normalise(sender.msg)), 1, k))
    /\ peer' = [peer EXCEPT ![SenderAddr] = "eof"]
    /\ sender' = [sender EXCEPT !.pc = "returned", !.writes = @ + 1,
                                !.wire = SubSeq(Encode(Normalise(sender.msg)), 1, k),
                                !.out = Append(@, OtherErrorLine)]
    /\ UNCHANGED <<app, listener, log, pc, stream, cancelReq, exit>>
    /\ UNCHANGED <<decoder, gemini, demos>>

\* The with block ends: the socket is closed and send_message returns.
SenderClose ==
    /\ sender.pc = "sent"
    /\ peer' = [peer EXCEPT ![SenderAddr] = "eof"]
    /\ sender' = [sender EXCEPT !.pc = "returned"]
    /\ UNCHANGED <<app, listener, log, pc, stream, pending, sent, cancelReq, exit>>
    /\ UNCHANGED <<decoder, gemini, demos>>

\* The relay accepts the connection the sender has made.
AcceptSender ==
    /\ sender.conn
    /\ Accept(SenderAddr)

SenderNext ==
    \/ OnMount
    \/ StartServerOk
    \/ StartServerFail
    \/ Quit
    \/ AcceptSender
    \/ \E k \in 1..(2 * MaxMsgLen + 2) : HandlerRead(SenderAddr, k)
    \/ HandlerEof(SenderAddr)
    \/ HandlerCancelled(SenderAddr)
    \/ WaitClosed(SenderAddr)
    \/ \E m \in Messages : SenderInvoke(m)
    \/ SenderConnectOk
    \/ SenderConnectRefused
    \/ SenderSendAll
    \/ \E k \in 0..(2 * MaxMsgLen + 2) : SenderSendFail(k)
    \/ SenderClose

SenderSpec == Init /\ [][SenderNext]_vars


\* The sender's output holds a "Sent: ..." line.
SentPrinted == \E i \in 1..Len(sender.out) : sender.out[i].kind = "sent"

\* C12: what send_message writes is the message itself when it ends with a
\* newline and the message with one newline appended when it does not; the
\* bytes written end with a newline; normalising the normalised message
\* changes nothing; and when the socket is closed after a complete write
\* the relay's end has received the whole payload.
C12_NewlineIffAbsent ==
    LET m == sender.msg
        expected == IF Len(m) > 0 /\ m[Len(m)] = "LF" THEN m ELSE m \o <<"LF">>
    IN  /\ Normalise(Normalise(m)) = Normalise(m)
        /\ SentPrinted =>
               /\ sender.wire = Encode(expected)
               /\ sender.wire[Len(sender.wire)] = "LF"
               /\ sender.writes = 1
        /\ (SentPrinted /\ peer[SenderAddr] = "eof") =>
               sent[SenderAddr] = Encode(expected)
        /\ (peer[SenderAddr] = "eof" /\ ~SentPrinted) =>
               /\ Len(sent[SenderAddr]) < Len(Encode(expected))
               /\ IsPrefix(sent[SenderAddr], Encode(expected))

\* C12 witness: a message that already ends with a newline was written
\* unchanged and the socket was closed after it.
C12_Witness ==
    /\ sender.msg = <<"a", "LF">>
    /\ sender.pc = "returned"
    /\ SentPrinted
    /\ sent[SenderAddr] = <<"a", "LF">>

\* C13: when nothing listens on the port as send_message connects, the run
\* ends in that step with exactly the line "Error: Could not connect to
\* localhost:9000. Is the TUI running?" printed, no "Sent:" line, nothing
\* written, and send_message returned.
C13_RefusedIsReported ==
    [][(sender.pc = "start" /\ listener # "serving" /\ sender'.pc # "start") =>
           /\ sender'.pc = "returned"
           /\ sender'.out = <<[kind |-> "refused", host |-> "localhost",
                               port |-> 9000, text |-> <<>>]>>
           /\ sender'.writes = 0
           /\ sender'.wire = <<>>
      ]_vars

\* C13 witness: the relay's bind failed, the sender was invoked, found
\* nothing listening and returned with the one line printed.
C13_Witness ==
    /\ listener = "failed"
    /\ sender.pc = "returned"
    /\ sender.connects = 1
    /\ sender.out = <<RefusedLine>>

\* C14: when a message of printable characters without a trailing newline
\* has been sent and the relay's handler has read the stream to its end,
\* the relay's log holds for the sender's connection the "Connection from"
\* entry, one data entry whose text is the message, and the "Closed
\* connection" entry, in this order, and the sender has printed "Sent:"
\* with the message.
C14_EndToEnd ==
    (/\ sender.pc = "returned"
     /\ SentPrinted
     /\ sender.msg # <<>>
     /\ \A i \in 1..Len(sender.msg) : sender.msg[i] \notin Whitespace
     /\ exit[SenderAddr] = "eof") =>
        /\ EntriesBy(SenderAddr) = <<ConnectionEntry(SenderAddr),
                                     DataEntry(SenderAddr, sender.msg),
                                     ClosedEntry(SenderAddr)>>
        /\ sender.out = <<[kind |-> "sent", host |-> HOST, port |-> PORT,
                           text |-> sender.msg]>>


(***************************************************************************)
(* Gemini.api_client (google.adk.models.google_llm), as the tests of       *)
(* src/tests/unittests/models/test_google_llm_auth.py use it: the          *)
(* environment is set, a Gemini object is made, and api_client is read.     *)
(***************************************************************************)

\* How often api_client is read in one run.
MaxAccess == 2

\* Values of GOOGLE_API_KEY, GOOGLE_CLOUD_PROJECT and GOOGLE_CLOUD_LOCATION;
\* "unset" is a variable that is not in the environment.
KeyValues == {"unset", "test-api-key", "other-key"}
ProjectValues == {"unset", "test-project", "other-project"}
LocationValues == {"unset", "us-central1", "europe-west1"}

\* A keyword argument that is not passed to Client.
Absent == "absent"

Passed(v) == IF v = "unset" THEN Absent ELSE v

\* Every credential found in the environment is passed.
ClientKwargs_All(key, project, location) ==
    [api_key |-> Passed(key), project |-> Passed(project), location |-> Passed(location)]

\* The keyword arguments of the Client call: the API key alone when
\* GOOGLE_API_KEY is set, and project and location otherwise.
ClientKwargs(key, project, location) ==
    IF key # "unset"
    THEN [api_key |-> key, project |-> Absent, location |-> Absent]
    ELSE [api_key |-> Absent, project |-> Passed(project), location |-> Passed(location)]

\* mock.patch.dict(os.environ, {...}, clear=True)
GeminiSetEnv(key, project, location) ==
    /\ gemini.pc = "off"
    /\ gemini' = [gemini EXCEPT !.pc = "env", !.key = key, !.project = project,
                                !.location = location]
    /\ UNCHANGED <<app, listener, log, pc, stream, peer, pending, sent, cancelReq, exit>>
    /\ UNCHANGED <<sender, decoder, demos>>

\* llm = Gemini(model="gemini-1.5-flash"): no client is made yet.
GeminiConstruct ==
    /\ gemini.pc = "env"
    /\ gemini' = [gemini EXCEPT !.pc = "made"]
    /\ UNCHANGED <<app, listener, log, pc, stream, peer, pending, sent, cancelReq, exit>>
    /\ UNCHANGED <<sender, decoder, demos>>

\* _ = llm.api_client: the first read calls Client and keeps the result,
\* later reads return it.
GeminiAccess ==
    /\ gemini.pc = "made"
    /\ gemini.accesses < MaxAccess
    /\ gemini' = [gemini EXCEPT
           !.accesses = @ + 1,
           !.clients = IF @ = <<>>
                       THEN <<ClientKwargs(gemini.key, gemini.project, gemini.location)>>
                       ELSE @]
    /\ UNCHANGED <<app, listener, log, pc, stream, peer, pending, sent, cancelReq, exit>>
    /\ UNCHANGED <<sender, decoder, demos>>

GeminiNext ==
    \/ \E k \in KeyValues : \E p \in ProjectValues : \E l \in LocationValues :
           GeminiSetEnv(k, p, l)
    \/ GeminiConstruct
    \/ GeminiAccess

GeminiSpec == Init /\ [][GeminiNext]_vars

\* C15: once api_client has been read, Client has been called exactly once,
\* however often it was read; with GOOGLE_API_KEY set the call got api_key
\* and neither project nor location; with GOOGLE_API_KEY unset and project
\* and location set it got these two and no api_key.  Before the first read
\* no client exists.
C15_OneClientOneCredential ==
    /\ gemini.accesses = 0 => gemini.clients = <<>>
    /\ gemini.accesses >= 1 =>
           /\ Len(gemini.clients) = 1
           /\ gemini.key # "unset" =>
                  /\ gemini.clients[1].api_key = gemini.key
                  /\ gemini.clients[1].project = "absent"
                  /\ gemini.clients[1].location = "absent"
           /\ (gemini.key = "unset" /\ gemini.project # "unset"
                   /\ gemini.location # "unset") =>
                  /\ gemini.clients[1].api_key = "absent"
                  /\ gemini.clients[1].project = gemini.project
                  /\ gemini.clients[1].location = gemini.location

\* C15 witness: the API key, the project and the location are all set,
\* api_client has been read twice, and the one client got the key alone.
C15_Witness ==
    /\ gemini.key = "test-api-key"
    /\ gemini.project = "test-project"
    /\ gemini.location = "us-central1"
    /\ gemini.accesses = 2
    /\ gemini.clients = <<[api_key |-> "test-api-key", project |-> "absent",
                           location |-> "absent"]>>


(***************************************************************************)
(* One pass of the read loop of handle_client (lines 45-50) on one chunk,  *)
(* over bytes that include spaces and tabs.                                *)
(***************************************************************************)

\* The longest chunk one read returns here.
MaxChunk == 3

DecoderBytes == {"a", "SP", "TAB", "LF", "CR"}

Chunks == UNION {[1..n -> DecoderBytes] : n \in 1..MaxChunk}

\* data = await reader.read(1024), with data not empty
DecoderRead(data) ==
    /\ decoder.pc = "off"
    /\ decoder' = [decoder EXCEPT !.pc = "read", !.data = data]
    /\ UNCHANGED <<app, listener, log, pc, stream, peer, pending, sent, cancelReq, exit>>
    /\ UNCHANGED <<sender, gemini, demos>>

\* Lines 48-50 on the chunk, writing to an empty log.
DecoderLog ==
    /\ decoder.pc = "read"
    /\ decoder' = [decoder EXCEPT !.pc = "logged",
                                  !.out = OnData(<<>>, "A", decoder.data)]
    /\ UNCHANGED <<app, listener, log, pc, stream, peer, pending, sent, cancelReq, exit>>
    /\ UNCHANGED <<sender, gemini, demos>>

DecoderNext ==
    \/ \E data \in Chunks : DecoderRead(data)
    \/ DecoderLog

DecoderSpec == Init /\ [][DecoderNext]_vars

\* The chunk is one whole line: its only newline is its last byte.
OneLine(data) ==
    /\ Len(data) >= 1
    /\ data[Len(data)] = "LF"
    /\ \A i \in 1..(Len(data) - 1) : data[i] # "LF"

\* C16: the text of a data entry is everything before the newline with only
\* a trailing carriage return removed; leading whitespace, trailing spaces
\* and tabs and the interior of the line are kept.  Stated for a chunk that
\* is exactly one line, where the missing line buffer plays no part.
C16_OnlyTrailingCRRemoved ==
    (decoder.pc = "logged" /\ OneLine(decoder.data)) =>
        \A i \in 1..Len(decoder.out) :
            decoder.out[i].text =
                StripCR(SubSeq(Decode(decoder.data), 1, Len(decoder.data) - 1))


\* C17: once the bind has succeeded no client event moves the listener out
\* of serving: while it serves, a client that has not connected yet can be
\* accepted whatever the other clients have done, and the only step that
\* ends serving is the shutdown of the app, which touches no connection's
\* handler position, stream or log.
C17_OnlyShutdownEndsAccepting ==
    /\ [](listener = "serving" =>
             \A c \in Addrs : pc[c] = "unconnected" => ENABLED Accept(c))
    /\ [][(listener = "serving" /\ listener' # "serving") =>
             /\ app = "running"
             /\ app' = "exited"
             /\ listener' = "cancelled"
             /\ pc' = pc
             /\ peer' = peer
             /\ log' = log]_vars

\* C17 witness: client A has connected, sent data, broken its connection and
\* its handler has ended on the read error; the listener still serves and
\* client B can be accepted.
C17_Witness ==
    /\ listener = "serving"
    /\ pc["A"] = "done"
    /\ exit["A"] = "error"
    /\ Len(EntriesOf("A", "data")) >= 1
    /\ pc["B"] = "unconnected"
    /\ ENABLED Accept("B")


\* The connection of c is closed on the relay's side.
Closed(c) == stream[c] = "closed"

\* C18: a connection goes Open -> Reading -> Closed.  It is closed only by
\* a step of its handler out of the read loop, and that step is the end of
\* the stream, a read error or the shutdown; once closed it stays closed,
\* its handler is never in the read loop again and takes no more bytes.
C18_Lifecycle ==
    /\ [](\A c \in Addrs :
             /\ Closed(c) <=> pc[c] \in {"wait_closed", "done"}
             /\ Closed(c) <=> exit[c] \in {"eof", "error", "cancel"}
             /\ pc[c] = "read" <=> stream[c] = "open")
    /\ [][\A c \in Addrs :
             /\ (~Closed(c) /\ Closed(c)') =>
                    /\ pc[c] = "read"
                    /\ \/ exit'[c] = "eof" /\ peer[c] = "eof" /\ pending[c] = <<>>
                       \/ exit'[c] = "error" /\ peer[c] = "reset"
                       \/ exit'[c] = "cancel" /\ app = "exited"
             /\ Closed(c) =>
                    /\ Closed(c)'
                    /\ pc'[c] \in {"wait_closed", "done"}
                    /\ pending'[c] = pending[c]
                    /\ exit'[c] = exit[c]
             /\ pc[c] = "done" => pc'[c] = "done"]_vars

\* C18 witness: the connection of A was closed by the shutdown with a byte
\* still unread, and its handler has ended without reading it.
C18_Witness ==
    /\ pc["A"] = "done"
    /\ exit["A"] = "cancel"
    /\ Closed("A")
    /\ pending["A"] # <<>>

\* The number of write_line calls a step makes, read off the step: one for
\* on_mount, one for the outcome of the bind, and for each connection one
\* when it is accepted, one for a chunk whose stripped text is not empty,
\* one for a read error and one for leaving the read loop.
AppendCalls ==
    LET handler(c) ==
            (IF pc[c] = "unconnected" /\ pc'[c] = "read" THEN 1 ELSE 0)
          + (IF Len(pending'[c]) < Len(pending[c])
                /\ Message(SubSeq(pending[c], 1, Len(pending[c]) - Len(pending'[c]))) # <<>>
             THEN 1 ELSE 0)
          + (IF exit[c] = "none" /\ exit'[c] = "error" THEN 1 ELSE 0)
          + (IF pc[c] = "read" /\ pc'[c] = "wait_closed" THEN 1 ELSE 0)
    IN  (IF app = "constructed" /\ app' = "running" THEN 1 ELSE 0)
      + (IF listener = "starting" /\ listener' \in {"serving", "failed"} THEN 1 ELSE 0)
      + handler("A") + handler("B")

\* What a whole line of task c can be.
WholeEntry(e) ==
    \/ e \in {InitEntry, ListeningEntry, BindErrorEntry}
    \/ \E c \in Addrs :
        \/ e \in {ConnectionEntry(c), ErrorEntry(c), ClosedEntry(c)}
        \/ \E i \in 1..Len(sent[c]) : \E j \in i..Len(sent[c]) :
               e = DataEntry(c, Message(SubSeq(sent[c], i, j)))

\* C19: the appends of the listener and of all handlers do not disturb one
\* another: each step lengthens the log by exactly the number of write_line
\* calls it makes and keeps every line that was there, and every line in
\* the log is one whole line of one task.
C19_NoLostOrTornAppend ==
    /\ [](\A i \in 1..Len(log) : WholeEntry(log[i]))
    /\ [][/\ Len(log') = Len(log) + AppendCalls
          /\ IsPrefix(log, log')]_vars

\* C19 witness: the handlers of A and B have written in turn (A, B, A, B)
\* and all six lines written so far are in the log.
C19_Witness ==
    /\ Len(log) = 6
    /\ \E i \in 1..3 :
          /\ log[i].by = "A"
          /\ log[i + 1].by = "B"
          /\ log[i + 2].by = "A"
          /\ log[i + 3].by = "B"

\* C20: a connection has a handler exactly when it has been accepted, and
\* that handler's "Connection from" line is in the log exactly once and is
\* the first line its task wrote, so it comes before every data, error or
\* closed line of the connection; a connection that has not been accepted
\* has no line at all.
C20_ConnectionEntryFirst ==
    \A c \in Addrs :
        /\ pc[c] # "unconnected" <=> stream[c] # "none"
        /\ pc[c] = "unconnected" =>
               /\ EntriesBy(c) = <<>>
               /\ \A i \in 1..Len(log) : log[i].addr # c
        /\ pc[c] # "unconnected" =>
               /\ Len(EntriesOf(c, "connection")) = 1
               /\ EntriesBy(c)[1] = ConnectionEntry(c)
               /\ \A i \in 1..Len(log) : \A j \in 1..Len(log) :
                      (/\ log[i] = ConnectionEntry(c)
                       /\ log[j].kind \in {"data", "error", "closed"}
                       /\ log[j].by = c) => i < j

\* C20 witness: the task of A has written, in this order, its connection
\* line, a data line, an error line and its closed line.
C20_Witness ==
    /\ Len(EntriesBy("A")) = 4
    /\ EntriesBy("A")[1].kind = "connection"
    /\ EntriesBy("A")[2].kind = "data"
    /\ EntriesBy("A")[3].kind = "error"
    /\ EntriesBy("A")[4].kind = "closed"


\* C21: a successful bind appends exactly one "Listening on ..." line, and
\* that line precedes every "Connection from" line: a log with a connection
\* line has the listening line, earlier.  A failed bind appends none.
C21_ListeningFirst ==
    /\ listener = "serving" => CountKind("listening") = 1
    /\ listener \in {"idle", "starting", "failed"} => CountKind("listening") = 0
    /\ CountKind("listening") <= 1
    /\ \A j \in 1..Len(log) :
           log[j].kind = "connection" =>
               \E i \in 1..(j - 1) : log[i] = ListeningEntry

\* C21 witness: the connection of A is accepted in the step right after the
\* bind, so its line directly follows the listening line.
C21_Witness ==
    /\ Len(log) >= 3
    /\ log[2] = ListeningEntry
    /\ log[3] = ConnectionEntry("A")


(***************************************************************************)
(* The relay with one client whose bytes need not be valid UTF-8.          *)
(***************************************************************************)

RawAddr == "A"

\* "xFF" is a byte that no UTF-8 text contains.
RawBytes == {"a", "LF", "xFF"}

RawNext ==
    \/ OnMount
    \/ StartServerOk
    \/ StartServerFail
    \/ Quit
    \/ Accept(RawAddr)
    \/ \E b \in RawBytes : PeerSend(RawAddr, b)
    \/ PeerClose(RawAddr)
    \/ PeerReset(RawAddr)
    \/ \E k \in 1..MaxBytes + 1 : HandlerRead(RawAddr, k)
    \/ HandlerEof(RawAddr)
    \/ HandlerError(RawAddr)
    \/ HandlerCancelled(RawAddr)
    \/ WaitClosed(RawAddr)

RawSpec == Init /\ [][RawNext]_vars

\* The decoded chunk holds a replacement character.
Replaced(data) == \E i \in 1..Len(Decode(data)) : Decode(data)[i] = "FFFD"

\* The chunk the handler of c takes in this step (empty if it takes none).
ChunkTaken(c) == SubSeq(pending[c], 1, Len(pending[c]) - Len(pending'[c]))

\* C22: bytes that are not valid UTF-8 never end a connection.  The step in
\* which the handler takes a chunk with such bytes leaves it in the read
\* loop with its stream open, and appends one data line, the chunk decoded
\* with replacement characters, and no error or closed line; an error exit
\* happens only when the connection itself broke; and after such a chunk
\* the handler can still take the bytes that follow.
C22_InvalidBytesDoNotClose ==
    /\ [](exit[RawAddr] = "error" => peer[RawAddr] = "reset")
    /\ []((/\ pc[RawAddr] = "read"
           /\ pending[RawAddr] # <<>>
           /\ ~cancelReq[RawAddr]
           /\ peer[RawAddr] # "reset") => ENABLED HandlerRead(RawAddr, 1))
    /\ [][(Len(pending'[RawAddr]) < Len(pending[RawAddr]) /\ Replaced(ChunkTaken(RawAddr))) =>
             /\ pc'[RawAddr] = "read"
             /\ stream'[RawAddr] = "open"
             /\ exit'[RawAddr] = "none"
             /\ log' = Append(log, DataEntry(RawAddr, Message(ChunkTaken(RawAddr))))
             /\ \E i \in 1..Len(log'[Len(log')].text) :
                    log'[Len(log')].text[i] = "FFFD"]_vars

\* C22 witness: the client sent an invalid byte and then "a"; both were
\* logged, the first as a replacement character, and the connection is
\* still being read.
C22_Witness ==
    /\ DataTexts(RawAddr) = << <<"FFFD">>, <<"a">> >>
    /\ pc[RawAddr] = "read"
    /\ exit[RawAddr] = "none"
    /\ EntriesOf(RawAddr, "error") = <<>>
    /\ EntriesOf(RawAddr, "closed") = <<>>


\* The sender's output holds an error line of either kind.
ErrorPrinted == \E i \in 1..Len(sender.out) : sender.out[i].kind \in {"refused", "error"}

\* C23: one call of send_message connects at most once and writes at most
\* once and prints at most one line; an error line means the call has
\* returned, and once it has returned nothing more happens on its behalf
\* (no second attempt); "Sent:" is printed only when the connect succeeded
\* and the write put the whole payload on the wire.
C23_NoRetry ==
    /\ [](/\ sender.connects <= 1
          /\ sender.writes <= 1
          /\ Len(sender.out) <= 1
          /\ ErrorPrinted => (sender.pc = "returned" /\ ~SentPrinted)
          /\ SentPrinted =>
                 /\ sender.conn
                 /\ sender.connects = 1
                 /\ sender.writes = 1
                 /\ sender.wire = Encode(Normalise(sender.msg))
                 /\ IsPrefix(sender.wire, sent[SenderAddr]))
    /\ [][sender.pc = "returned" => sender' = sender]_vars

\* C23 witness: the connect succeeded, the write failed part way, the error
\* was printed and the call returned after one attempt, while the relay
\* went on running its shutdown.
C23_Witness ==
    /\ sender.pc = "returned"
    /\ sender.out = <<OtherErrorLine>>
    /\ sender.connects = 1
    /\ sender.writes = 1
    /\ Len(sender.wire) >= 1
    /\ pc[SenderAddr] = "done"


(***************************************************************************)
(* MockStorage of src/demo_archive.py                                      *)
(***************************************************************************)

\* The longest list of names one call is given, and the number of calls.
MaxNames == 2
MaxMoves == 2

\* The names a call can be given: the stored ones and one that never existed.
FileNames == InitialFiles \cup {"no_such_file.txt"}

\* days_old of each file in the mock directory.
DaysOld == [n \in InitialFiles |->
               CASE n = "report_current.txt" -> 2
                 [] n = "access_logs_2020.log" -> 1500
                 [] n = "temp_data_old.tmp" -> 45
                 [] n = "project_specs.pdf" -> 5]

NameLists == UNION {[1..n -> FileNames] : n \in 0..MaxNames}

\* {"name": name, **file_data}
BucketEntry(name) == [name |-> name, days_old |-> DaysOld[name]]

\* The loop body with a copy in place of the pop: the file stays in files.
MoveOne_Copy(st, name) ==
    IF name \in st.files
    THEN [st EXCEPT !.bucket = Append(@, BucketEntry(name)),
                    !.moved = Append(@, name)]
    ELSE [st EXCEPT !.not_found = Append(@, name)]

\* One pass of the loop of move_to_archive, for one name.
MoveOne(st, name) ==
    IF name \in st.files
    THEN [st EXCEPT !.files = @ \ {name},
                    !.bucket = Append(@, BucketEntry(name)),
                    !.moved = Append(@, name)]
    ELSE [st EXCEPT !.not_found = Append(@, name)]

RECURSIVE MoveLoop(_, _)
MoveLoop(st, names) ==
    IF names = <<>> THEN st ELSE MoveLoop(MoveOne(st, Head(names)), Tail(names))

\* storage.move_to_archive(filenames): moved and not_found start empty, the
\* loop runs, and the result names the moved files and, if there are any,
\* the ones that were not found.
MoveToArchive(filenames) ==
    /\ storage.calls < MaxMoves
    /\ storage' = MoveLoop([storage EXCEPT !.args = filenames, !.moved = <<>>,
                                           !.not_found = <<>>, !.calls = @ + 1],
                           filenames)
    /\ UNCHANGED <<relay, sender, decoder, gemini, mover, gate, pipe, monitor, gcs, sync>>

StorageNext == \E filenames \in NameLists : MoveToArchive(filenames)

StorageSpec == Init /\ [][StorageNext]_vars

\* The names of the bucket's entries, in order.
BucketNames == [i \in 1..Len(storage.bucket) |-> storage.bucket[i].name]

\* Name n occurs in the sequence s.
Occurs(n, s) == \E i \in 1..Len(s) : s[i] = n

\* C24: after any calls of move_to_archive every initially stored name is
\* in files or in the bucket and not in both, the bucket holds no name
\* twice and nothing else; a name of the call that is not in files when the
\* call is made is reported as not found, and a call none of whose names is
\* in files changes neither files nor bucket.
C24_Conservation ==
    /\ [](/\ \A n \in InitialFiles :
                (n \in storage.files) # Occurs(n, BucketNames)
          /\ storage.files \subseteq InitialFiles
          /\ \A i \in 1..Len(BucketNames) :
                /\ BucketNames[i] \in InitialFiles
                /\ \A j \in 1..Len(BucketNames) : BucketNames[i] = BucketNames[j] => i = j)
    /\ [][storage'.calls = storage.calls + 1 =>
             /\ \A i \in 1..Len(storage'.args) :
                    storage'.args[i] \notin storage.files => Occurs(storage'.args[i], storage'.not_found)
             /\ (\A i \in 1..Len(storage'.args) : storage'.args[i] \notin storage.files) =>
                    /\ storage'.files = storage.files
                    /\ storage'.bucket = storage.bucket
                    /\ storage'.moved = <<>>
             /\ Len(storage'.moved) + Len(storage'.not_found) = Len(storage'.args)]_vars

\* C24 witness: a second call names the same file twice after a first call
\* has moved another one; the file is moved once and reported once as not
\* found.
C24_Witness ==
    /\ storage.calls = 2
    /\ storage.args = <<"temp_data_old.tmp", "temp_data_old.tmp">>
    /\ storage.moved = <<"temp_data_old.tmp">>
    /\ storage.not_found = <<"temp_data_old.tmp">>
    /\ BucketNames = <<"access_logs_2020.log", "temp_data_old.tmp">>
    /\ storage.files = {"report_current.txt", "project_specs.pdf"}


(***************************************************************************)
(* The mover agent of src/demo_archive.py and src/demo_gcs_archive.py: the *)
(* agent calls the mock model with the conversation so far, runs the tool  *)
(* the model asks for, adds the tool's response to the conversation and    *)
(* calls the model again, until the model answers with text.               *)
(***************************************************************************)

\* The longest conversation the mover is started with, and a cap on the
\* number of model calls of one run.
MaxHistory == 2
MaxLlmCalls == 4

Demos == {"archive", "gcs"}

\* The two file names the mock model looks for in the context.
Candidates == {"access_logs_2020.log", "temp_data_old.tmp"}

\* A content of the request, reduced to what generate_content_async reads:
\* whether its first part is text, a function call or a function response,
\* and which of the two file names its text or function output mentions.
TextContent(m) == [kind |-> "text", mentions |-> m, args |-> <<>>]
CallContent(a) == [kind |-> "function_call", mentions |-> {}, args |-> a]
ResponseContent(m) == [kind |-> "function_response", mentions |-> m, args |-> <<>>]

\* What the conversation can hold when the mover starts.
HistoryContents ==
    {TextContent(m) : m \in SUBSET Candidates}
        \cup {ResponseContent({}), ResponseContent(Candidates)}

Histories == UNION {[1..n -> HistoryContents] : n \in 0..MaxHistory}

\* The file names found in full_context.
Mentioned(contents) == UNION {contents[i].mentions : i \in 1..Len(contents)}

\* last_content_was_fr
LastWasFr(contents) ==
    Len(contents) > 0 /\ contents[Len(contents)].kind = "function_response"

\* files_to_move
FilesToMove(contents) ==
    (IF "access_logs_2020.log" \in Mentioned(contents)
     THEN <<"access_logs_2020.log">> ELSE <<>>)
    \o (IF "temp_data_old.tmp" \in Mentioned(contents)
        THEN <<"temp_data_old.tmp">> ELSE <<>>)

\* The mover branch without the test of the last content.
MoverReply_NoFrCheck(contents) ==
    IF FilesToMove(contents) # <<>>
    THEN CallContent(FilesToMove(contents))
    ELSE TextContent({})

\* The mover branch of generate_content_async: text right after a function
\* response, else the function call if a file name is in the context, else
\* text.
MoverReply(contents) ==
    IF LastWasFr(contents)
    THEN TextContent({})
    ELSE IF FilesToMove(contents) # <<>>
         THEN CallContent(FilesToMove(contents))
         ELSE TextContent({})

\* The mover is reached with the conversation the earlier agents left.
MoverStart(demo, history) ==
    /\ mover.pc = "off"
    /\ mover' = [mover EXCEPT !.pc = "call_llm", !.demo = demo, !.contents = history]
    /\ UNCHANGED <<relay, sender, decoder, gemini, storage, gate, pipe, monitor, gcs, sync>>

\* One call of the model; a text answer ends the mover's turn.
MoverLlm ==
    /\ mover.pc = "call_llm"
    /\ mover.llm_calls < MaxLlmCalls
    /\ mover' = [mover EXCEPT
           !.llm_calls = @ + 1,
           !.contents = Append(@, MoverReply(mover.contents)),
           !.pc = IF MoverReply(mover.contents).kind = "function_call"
                  THEN "run_tool" ELSE "done"]
    /\ UNCHANGED <<relay, sender, decoder, gemini, storage, gate, pipe, monitor, gcs, sync>>

\* The tool the model asked for runs and its result, which names every file
\* of the call, joins the conversation as a function response.  In
\* demo_archive the tool is storage.move_to_archive.
MoverTool ==
    /\ mover.pc = "run_tool"
    /\ LET args == mover.contents[Len(mover.contents)].args
       IN  /\ mover' = [mover EXCEPT
                  !.pc = "call_llm",
                  !.tool_calls = Append(@, args),
                  !.contents = Append(@, ResponseContent({args[i] : i \in 1..Len(args)}))]
           /\ storage' = IF mover.demo = "archive"
                         THEN MoveLoop([storage EXCEPT !.args = args, !.moved = <<>>,
                                            !.not_found = <<>>, !.calls = @ + 1], args)
                         ELSE storage
    /\ UNCHANGED <<relay, sender, decoder, gemini, gate, pipe, monitor, gcs, sync>>

MoverNext ==
    \/ \E demo \in Demos : \E history \in Histories : MoverStart(demo, history)
    \/ MoverLlm
    \/ MoverTool

MoverSpec == Init /\ [][MoverNext]_vars

\* The agent keeps going while it has a step to take.
MoverFairSpec == MoverSpec /\ WF_vars(MoverLlm) /\ WF_vars(MoverTool)

\* Where the mover's own part of the conversation begins.
MoverOwn == Len(mover.contents) - mover.llm_calls - Len(mover.tool_calls)

\* C25: the mover's tool loop ends.  Every run that has started reaches the
\* text answer; the model asks for the tool only when the last content is
\* no function response and answers a function response with text, so the
\* conversation never holds two function calls the mover made with only the
\* response between them, the model is called at most twice and the tool at
\* most once, with each file named at most once, and in demo_archive each
\* file is moved at most once.
C25_MoverTerminates ==
    /\ (mover.pc \in {"call_llm", "run_tool"}) ~> (mover.pc = "done")
    /\ [](/\ mover.llm_calls <= 2
          /\ Len(mover.tool_calls) <= 1
          /\ \A i \in 1..Len(mover.tool_calls) :
                \A j, k \in 1..Len(mover.tool_calls[i]) :
                    mover.tool_calls[i][j] = mover.tool_calls[i][k] => j = k
          /\ \A i \in (MoverOwn + 1)..Len(mover.contents) :
                /\ mover.contents[i].kind = "function_call" =>
                       (i = 1 \/ mover.contents[i - 1].kind # "function_response")
                /\ (i > 1 /\ mover.contents[i - 1].kind = "function_response") =>
                       mover.contents[i].kind = "text"
          /\ storage.calls <= 1
          /\ \A j, k \in 1..Len(storage.moved) :
                storage.moved[j] = storage.moved[k] => j = k)

\* C25 witness: in demo_archive the mover asked for both files, the tool
\* moved them, and the model then answered with text: two model calls, one
\* tool call, the run done.
C25_Witness ==
    /\ mover.pc = "done"
    /\ mover.demo = "archive"
    /\ mover.llm_calls = 2
    /\ mover.tool_calls = << <<"access_logs_2020.log", "temp_data_old.tmp">> >>
    /\ storage.moved = <<"access_logs_2020.log", "temp_data_old.tmp">>
    /\ mover.contents[Len(mover.contents)].kind = "text"
    /\ mover.contents[Len(mover.contents) - 1].kind = "function_response"


(***************************************************************************)
(* The gatekeeper graph of src/demo_langgraph.py.  The graph runs in       *)
(* steps: the nodes an edge has triggered run on the state as it was when  *)
(* the step began, in any order, and their updates are applied when all of *)
(* them have run; then the nodes their edges lead to make the next step.   *)
(***************************************************************************)

\* The longest topic, in pieces of text.
MaxTopic == 3

\* Pieces of text a topic is made of: "C" + "ooking" is "Cooking".
TopicPieces == {"C", "c", "ooking", "OOKING", "AI", " "}

Topics == UNION {[1..n -> TopicPieces] : n \in 1..MaxTopic}

SKIPPED == "Analysis Skipped"
BENEFITS == "1. Increased efficiency ..."
RISKS == "1. Job displacement ..."
APOLOGY == "I apologize, but we cannot analyze this topic ..."
REPORT == "FINAL REPORT: ..."

\* Only the capitalised word is looked for.
GatekeeperStatus_CapitalOnly(topic) ==
    IF IsSubstring(<<"C", "ooking">>, topic) THEN "REJECTED" ELSE "APPROVED"

\* gatekeeper_node: "Cooking" in topic or "cooking" in topic
GatekeeperStatus(topic) ==
    IF IsSubstring(<<"C", "ooking">>, topic) \/ IsSubstring(<<"c", "ooking">>, topic)
    THEN "REJECTED"
    ELSE "APPROVED"

\* await app.ainvoke(inputs)
GateInvoke(topic) ==
    /\ gate.pc = "off"
    /\ gate' = [gate EXCEPT !.pc = "gatekeeper", !.topic = topic]
    /\ UNCHANGED <<relay, sender, decoder, gemini, storage, mover, pipe, monitor, gcs, sync>>

\* gatekeeper_node runs; both of its edges trigger, so the next step holds
\* the benefits and the risks node.
GatekeeperNode ==
    /\ gate.pc = "gatekeeper"
    /\ gate' = [gate EXCEPT !.pc = "experts",
                            !.state.status = GatekeeperStatus(gate.topic),
                            !.todo = {"benefits_expert", "risks_expert"},
                            !.ran = Append(@, "gatekeeper")]
    /\ UNCHANGED <<relay, sender, decoder, gemini, storage, mover, pipe, monitor, gcs, sync>>

\* A node of the step of the two experts has run and left the update w; the
\* last one to run ends the step: the updates are applied and the
\* aggregator, to which both edges lead, makes the next step.
ExpertRan(node, w) ==
    /\ gate.pc = "experts"
    /\ node \in gate.todo
    /\ gate' = IF gate.todo = {node}
               THEN [gate EXCEPT !.pc = "aggregator",
                                 !.todo = {},
                                 !.ran = Append(@, node),
                                 !.writes = [benefits |-> "", risks |-> ""],
                                 !.state.benefits = w.benefits,
                                 !.state.risks = w.risks]
               ELSE [gate EXCEPT !.todo = @ \ {node},
                                 !.ran = Append(@, node),
                                 !.writes = w]
    /\ UNCHANGED <<relay, sender, decoder, gemini, storage, mover, pipe, monitor, gcs, sync>>

\* benefits_node
BenefitsNode ==
    ExpertRan("benefits_expert",
              [gate.writes EXCEPT !.benefits =
                   IF gate.state.status = "REJECTED" THEN SKIPPED ELSE BENEFITS])

\* risks_node
RisksNode ==
    ExpertRan("risks_expert",
              [gate.writes EXCEPT !.risks =
                   IF gate.state.status = "REJECTED" THEN SKIPPED ELSE RISKS])

\* aggregator_node, then END
AggregatorNode ==
    /\ gate.pc = "aggregator"
    /\ gate' = [gate EXCEPT !.pc = "end",
                            !.ran = Append(@, "aggregator"),
                            !.state.final_report =
                                IF gate.state.benefits = SKIPPED THEN APOLOGY ELSE REPORT]
    /\ UNCHANGED <<relay, sender, decoder, gemini, storage, mover, pipe, monitor, gcs, sync>>

GateNext ==
    \/ \E topic \in Topics : GateInvoke(topic)
    \/ GatekeeperNode
    \/ BenefitsNode
    \/ RisksNode
    \/ AggregatorNode

GateSpec == Init /\ [][GateNext]_vars

\* The topic holds "Cooking" or "cooking".
HasCooking(topic) ==
    \E i \in 1..(Len(topic) - 1) : topic[i] \in {"C", "c"} /\ topic[i + 1] = "ooking"

\* The places of node n in the order in which the nodes ran.
RanAt(n) == {i \in 1..Len(gate.ran) : gate.ran[i] = n}

\* C26: a finished run has status REJECTED and the apology as final_report
\* exactly when the topic holds "Cooking" or "cooking", and status APPROVED
\* and the FINAL REPORT text otherwise; the aggregator runs once, after the
\* benefits and the risks node have both run and their fields are written,
\* in whichever order the two ran.
C26_GatekeeperVerdict ==
    /\ gate.pc = "end" =>
           /\ HasCooking(gate.topic) =>
                  /\ gate.state.status = "REJECTED"
                  /\ gate.state.final_report = "I apologize, but we cannot analyze this topic ..."
           /\ ~HasCooking(gate.topic) =>
                  /\ gate.state.status = "APPROVED"
                  /\ gate.state.final_report = "FINAL REPORT: ..."
    /\ Cardinality(RanAt("aggregator")) <= 1
    /\ (gate.pc = "aggregator" \/ RanAt("aggregator") # {}) =>
           /\ Cardinality(RanAt("benefits_expert")) = 1
           /\ Cardinality(RanAt("risks_expert")) = 1
           /\ gate.state.benefits # ""
           /\ gate.state.risks # ""
           /\ \A i \in RanAt("aggregator") :
                  \A j \in RanAt("benefits_expert") \cup RanAt("risks_expert") : j < i

\* C26 witness: the topic " cooking", the risks node ran before the
\* benefits node, and the run ended rejected with the apology.
C26_Witness ==
    /\ gate.pc = "end"
    /\ gate.topic = <<" ", "c", "ooking">>
    /\ gate.ran = <<"gatekeeper", "risks_expert", "benefits_expert", "aggregator">>
    /\ gate.state = [status |-> "REJECTED", benefits |-> SKIPPED, risks |-> SKIPPED,
                     final_report |-> APOLOGY]


(***************************************************************************)
(* The pipeline graph of src/demo_langgraph_error.py.  The demo's trainer  *)
(* always names model_v1.pt; here the artifact name is any short text, so  *)
(* that both outcomes of the upload occur.                                 *)
(***************************************************************************)

\* The longest artifact name, in pieces of text.
MaxArtifact == 2

\* Pieces of text an artifact name is made of: "mod" + "el" is "model".
ArtifactPieces == {"model", "mod", "el", "data", "_v1", ".pt", ".zip"}

Artifacts == UNION {[1..n -> ArtifactPieces] : n \in 1..MaxArtifact}

\* "model" in artifact
HasModel(artifact) ==
    \/ IsSubstring(<<"model">>, artifact)
    \/ IsSubstring(<<"mod", "el">>, artifact)

\* simulate_upload: "OK", or the text of the OSError it raises.
SimulateUpload(artifact) ==
    IF HasModel(artifact) THEN "[Errno 28] No space left on device" ELSE "OK"

\* The edge that alerts whatever the backup did.
CheckBackupStatus_Always(state) == "alert_ops"

\* check_backup_status
CheckBackupStatus(state) ==
    IF state.backup_status = "failed" THEN "alert_ops" ELSE "end"

\* await app.ainvoke(initial_state)
PipeInvoke ==
    /\ pipe.pc = "off"
    /\ pipe' = [pipe EXCEPT !.pc = "trainer"]
    /\ UNCHANGED <<relay, sender, decoder, gemini, storage, mover, gate, monitor, gcs, sync>>

\* training_node, with the artifact it names
TrainerNode(artifact) ==
    /\ pipe.pc = "trainer"
    /\ pipe' = [pipe EXCEPT !.pc = "backup_ops",
                            !.ran = Append(@, "trainer"),
                            !.state.step = "training_complete",
                            !.state.artifact = artifact,
                            !.state.backup_status = "pending"]
    /\ UNCHANGED <<relay, sender, decoder, gemini, storage, mover, gate, monitor, gcs, sync>>

\* backup_node, then the conditional edge on the updated state
BackupNode ==
    /\ pipe.pc = "backup_ops"
    /\ LET result == SimulateUpload(pipe.state.artifact)
           updated == IF result = "OK"
                      THEN [pipe.state EXCEPT !.backup_status = "success"]
                      ELSE [pipe.state EXCEPT !.backup_status = "failed", !.error = result]
       IN  pipe' = [pipe EXCEPT !.pc = CheckBackupStatus(updated),
                                !.ran = Append(@, "backup_ops"),
                                !.state = updated]
    /\ UNCHANGED <<relay, sender, decoder, gemini, storage, mover, gate, monitor, gcs, sync>>

\* alert_node, then END
AlertNode ==
    /\ pipe.pc = "alert_ops"
    /\ pipe' = [pipe EXCEPT !.pc = "end",
                            !.ran = Append(@, "alert_ops"),
                            !.state.alert_sent = TRUE]
    /\ UNCHANGED <<relay, sender, decoder, gemini, storage, mover, gate, monitor, gcs, sync>>

PipeNext ==
    \/ PipeInvoke
    \/ \E artifact \in Artifacts : TrainerNode(artifact)
    \/ BackupNode
    \/ AlertNode

PipeSpec == Init /\ [][PipeNext]_vars

\* C27: the alert node runs exactly when the backup node ended with
\* backup_status "failed".  In every final state alert_sent is true exactly
\* when backup_status is "failed", and exactly when error is set; the alert
\* runs only after the backup node; a successful backup ends the run at
\* once, with alert_sent false and no error.
C27_AlertIffFailed ==
    /\ pipe.state.alert_sent =>
           /\ pipe.ran = <<"trainer", "backup_ops", "alert_ops">>
           /\ pipe.state.backup_status = "failed"
    /\ pipe.pc = "alert_ops" => pipe.state.backup_status = "failed"
    /\ pipe.pc = "end" =>
           /\ pipe.state.backup_status \in {"failed", "success"}
           /\ pipe.state.alert_sent <=> pipe.state.backup_status = "failed"
           /\ pipe.state.alert_sent <=> pipe.state.error # "None"
           /\ pipe.state.backup_status = "success" =>
                  /\ pipe.ran = <<"trainer", "backup_ops">>
                  /\ ~pipe.state.alert_sent
                  /\ pipe.state.error = "None"

\* C27 witness: the demo's own run: model_v1.pt fails to upload, the alert
\* is sent after the backup step and the run ends.
C27_Witness ==
    /\ pipe.pc = "end"
    /\ pipe.state.artifact = <<"model", "_v1">>
    /\ pipe.state.backup_status = "failed"
    /\ pipe.state.error # "None"
    /\ pipe.state.alert_sent
    /\ pipe.ran = <<"trainer", "backup_ops", "alert_ops">>


(***************************************************************************)
(* The disk-monitor graph of src/demo_monitor_backup.py.  The demo's       *)
(* monitor node always reports 95 percent; here the measurement is any of  *)
(* a few values around the threshold.  The backup tool is                  *)
(* move_files_to_bucket, whose lines are those of src/gcs_tools.py.        *)
(***************************************************************************)

DISK_THRESHOLD == 80

\* Measurements of the disk usage, in percent.
Usages == {0, 79, 80, 81, 95, 100}

\* found_files
FoundFiles == <<"./large_model_v1.pt", "./dataset_archive.zip">>

FoundSet == {FoundFiles[i] : i \in 1..Len(FoundFiles)}

\* What the tool does with one file: gsutil moves it, gsutil fails, gsutil
\* is not installed, or subprocess.run raises something the tool does not
\* catch.
ToolOutcomes == {"moved", "failed", "no_gsutil", "raise"}

\* The runs of the tool over the found files: one outcome per file, up to
\* and including the first that raises.
ToolRuns ==
    {o \in UNION {[1..n -> ToolOutcomes] : n \in 1..Len(FoundFiles)} :
        /\ \A i \in 1..(Len(o) - 1) : o[i] # "raise"
        /\ Len(o) < Len(FoundFiles) => o[Len(o)] = "raise"}

\* The tool raised.
Raised(o) == o[Len(o)] = "raise"

\* "Error" in result: the lines of a failed move and of a missing gsutil
\* both hold the word.
ResultHasError(o) == \E i \in 1..Len(o) : o[i] \in {"failed", "no_gsutil"}

\* The files gsutil mv has taken away.
MovedByTool(o) == {FoundFiles[i] : i \in {j \in 1..Len(o) : o[j] = "moved"}}

\* The edge that takes the threshold itself for critical.
CheckDiskStatus_AtLeast(state) ==
    IF state.disk_usage_percent >= DISK_THRESHOLD THEN "critical" ELSE "ok"

\* check_disk_status
CheckDiskStatus(state) ==
    IF state.disk_usage_percent > DISK_THRESHOLD THEN "critical" ELSE "ok"

\* await app.ainvoke(initial_state), with some of the files already there
MonitorInvoke(existing) ==
    /\ monitor.pc = "off"
    /\ monitor' = [monitor EXCEPT !.pc = "monitor", !.local = existing]
    /\ UNCHANGED <<relay, sender, decoder, gemini, storage, mover, gate, pipe, gcs, sync>>

\* monitor_disk_node, then the conditional edge
MonitorDiskNode(percent) ==
    /\ monitor.pc = "monitor"
    /\ LET updated == [monitor.state EXCEPT !.disk_usage_percent = percent]
       IN  monitor' = [monitor EXCEPT
                  !.pc = IF CheckDiskStatus(updated) = "critical" THEN "scanner" ELSE "notify",
                  !.ran = Append(@, "monitor"),
                  !.state = updated]
    /\ UNCHANGED <<relay, sender, decoder, gemini, storage, mover, gate, pipe, gcs, sync>>

\* scan_files_node: the found files are created if they are not there.
ScanFilesNode ==
    /\ monitor.pc = "scanner"
    /\ monitor' = [monitor EXCEPT !.pc = "backup",
                                  !.ran = Append(@, "scanner"),
                                  !.local = @ \cup FoundSet,
                                  !.state.files_to_backup = FoundFiles]
    /\ UNCHANGED <<relay, sender, decoder, gemini, storage, mover, gate, pipe, gcs, sync>>

\* backup_node, the tool running as o: "error" if the tool raises, "failed"
\* if its result holds "Error", else the files that are still there are
\* removed and the status is "success".
MonitorBackupNode(o) ==
    /\ monitor.pc = "backup"
    /\ LET left == monitor.local \ MovedByTool(o)
       IN  monitor' = [monitor EXCEPT
                  !.pc = "notify",
                  !.ran = Append(@, "backup"),
                  !.tool = o,
                  !.local = IF Raised(o) \/ ResultHasError(o) THEN left ELSE left \ FoundSet,
                  !.removed = IF Raised(o) \/ ResultHasError(o) THEN {} ELSE left \cap FoundSet,
                  !.state.backup_status = IF Raised(o) THEN "error"
                                          ELSE IF ResultHasError(o) THEN "failed"
                                          ELSE "success",
                  !.state.message = IF Raised(o) THEN "str(e)"
                                    ELSE IF ResultHasError(o) THEN "result"
                                    ELSE "Files offloaded and space reclaimed."]
    /\ UNCHANGED <<relay, sender, decoder, gemini, storage, mover, gate, pipe, gcs, sync>>

\* notify_node, then END
NotifyNode ==
    /\ monitor.pc = "notify"
    /\ monitor' = [monitor EXCEPT !.pc = "end", !.ran = Append(@, "notify")]
    /\ UNCHANGED <<relay, sender, decoder, gemini, storage, mover, gate, pipe, gcs, sync>>

MonitorNext ==
    \/ \E existing \in SUBSET FoundSet : MonitorInvoke(existing)
    \/ \E percent \in Usages : MonitorDiskNode(percent)
    \/ ScanFilesNode
    \/ \E o \in ToolRuns : MonitorBackupNode(o)
    \/ NotifyNode

MonitorSpec == Init /\ [][MonitorNext]_vars

\* The number of times node n has run.
TimesRan(n) == Cardinality({i \in 1..Len(monitor.ran) : monitor.ran[i] = n})

\* C28: the scanner and the backup node run only when the measured usage
\* is strictly above 80, a usage of exactly 80 goes straight to notify;
\* notify runs exactly once, as the last node of every run; and when a line
\* of the tool's result reports a failure or the tool raised, the status is
\* "failed" or "error", the node has removed no file, and every file the
\* tool did not move is still there.
C28_MonitorRouting ==
    /\ (monitor.pc \in {"scanner", "backup"} \/ TimesRan("scanner") + TimesRan("backup") > 0) =>
           monitor.state.disk_usage_percent > 80
    /\ (TimesRan("monitor") = 1 /\ monitor.state.disk_usage_percent <= 80) =>
           /\ monitor.pc \in {"notify", "end"}
           /\ monitor.state.backup_status = "unknown"
    /\ monitor.pc # "end" => TimesRan("notify") = 0
    /\ monitor.pc = "end" =>
           /\ TimesRan("notify") = 1
           /\ monitor.ran[Len(monitor.ran)] = "notify"
           /\ monitor.ran \in {<<"monitor", "notify">>,
                               <<"monitor", "scanner", "backup", "notify">>}
    /\ TimesRan("backup") = 1 =>
           LET bad == \E i \in 1..Len(monitor.tool) :
                          monitor.tool[i] \in {"failed", "no_gsutil", "raise"}
           IN  /\ bad => /\ monitor.state.backup_status \in {"failed", "error"}
                         /\ monitor.removed = {}
                         /\ \A i \in 1..Len(FoundFiles) :
                                (i > Len(monitor.tool) \/ monitor.tool[i] # "moved")
                                    => FoundFiles[i] \in monitor.local
               /\ ~bad => monitor.state.backup_status = "success"

\* C28 witness: at 95 percent the first file was moved and the second
\* failed; the run ended with notify, status "failed", and the second file
\* still in place.
C28_Witness ==
    /\ monitor.pc = "end"
    /\ monitor.state.disk_usage_percent = 95
    /\ monitor.ran = <<"monitor", "scanner", "backup", "notify">>
    /\ monitor.tool = <<"moved", "failed">>
    /\ monitor.state.backup_status = "failed"
    /\ monitor.local = {"./dataset_archive.zip"}
    /\ monitor.removed = {}


(***************************************************************************)
(* move_files_to_bucket of src/gcs_tools.py.  A text is a sequence of      *)
(* pieces; the piece "LF" is a newline.                                    *)
(***************************************************************************)

\* The longest list of files and the longest stderr text of gsutil.
MaxFiles == 2
MaxStderr == 3

GcsFiles == {"a.log", "b.tmp"}

FileLists == UNION {[1..n -> GcsFiles] : n \in 0..MaxFiles}

\* What gsutil can leave on stderr.
Stderrs == UNION {[1..n -> {"x", "LF"}] : n \in 0..MaxStderr}

\* f"Successfully moved {file} to gs://{bucket_name}/"
MovedLine(file) == <<"Successfully moved", file>>

\* f"Failed to move {file}. Error: {e.stderr.strip()}"
FailedLine(file, stderr) == <<"Failed to move", file, "Error:">> \o Strip(stderr)

\* "Error: gsutil command not found. Is Cloud SDK installed?"
NoGsutilLine == <<"Error: gsutil command not found">>

\* "\n".join(results)
RECURSIVE Join(_)
Join(results) ==
    IF results = <<>> THEN <<>>
    ELSE IF Len(results) = 1 THEN results[1]
    ELSE results[1] \o <<"LF">> \o Join(Tail(results))

\* move_files_to_bucket(filenames) is called.
GcsCall(filenames) ==
    /\ gcs.pc = "off"
    /\ gcs' = [gcs EXCEPT !.pc = "loop", !.filenames = filenames]
    /\ UNCHANGED <<relay, sender, decoder, gemini, storage, mover, gate, pipe, monitor, sync>>

\* The file being processed.
GcsFile == gcs.filenames[Len(gcs.results) + 1]

\* A failed command ends the loop.
GcsMoveFailed_Abort(stderr) ==
    /\ gcs.pc = "loop"
    /\ Len(gcs.results) < Len(gcs.filenames)
    /\ gcs' = [gcs EXCEPT !.pc = "returned",
                          !.ran = Append(@, "failed"),
                          !.results = Append(@, FailedLine(GcsFile, stderr)),
                          !.returned = Join(Append(gcs.results, FailedLine(GcsFile, stderr)))]
    /\ UNCHANGED <<relay, sender, decoder, gemini, storage, mover, gate, pipe, monitor, sync>>

\* subprocess.run succeeds for the next file.
GcsMoveOk ==
    /\ gcs.pc = "loop"
    /\ Len(gcs.results) < Len(gcs.filenames)
    /\ gcs' = [gcs EXCEPT !.ran = Append(@, "ok"),
                          !.results = Append(@, MovedLine(GcsFile))]
    /\ UNCHANGED <<relay, sender, decoder, gemini, storage, mover, gate, pipe, monitor, sync>>

\* subprocess.run raises CalledProcessError for the next file.
GcsMoveFailed(stderr) ==
    /\ gcs.pc = "loop"
    /\ Len(gcs.results) < Len(gcs.filenames)
    /\ gcs' = [gcs EXCEPT !.ran = Append(@, "failed"),
                          !.results = Append(@, FailedLine(GcsFile, stderr))]
    /\ UNCHANGED <<relay, sender, decoder, gemini, storage, mover, gate, pipe, monitor, sync>>

\* subprocess.run raises FileNotFoundError for the next file.
GcsNoGsutil ==
    /\ gcs.pc = "loop"
    /\ Len(gcs.results) < Len(gcs.filenames)
    /\ gcs' = [gcs EXCEPT !.ran = Append(@, "no_gsutil"),
                          !.results = Append(@, NoGsutilLine)]
    /\ UNCHANGED <<relay, sender, decoder, gemini, storage, mover, gate, pipe, monitor, sync>>

\* The loop is over: return "\n".join(results)
GcsReturn ==
    /\ gcs.pc = "loop"
    /\ Len(gcs.results) = Len(gcs.filenames)
    /\ gcs' = [gcs EXCEPT !.pc = "returned", !.returned = Join(gcs.results)]
    /\ UNCHANGED <<relay, sender, decoder, gemini, storage, mover, gate, pipe, monitor, sync>>

GcsNext ==
    \/ \E filenames \in FileLists : GcsCall(filenames)
    \/ GcsMoveOk
    \/ \E stderr \in Stderrs : GcsMoveFailed(stderr)
    \/ GcsNoGsutil
    \/ GcsReturn

GcsSpec == Init /\ [][GcsNext]_vars

\* The number of lines of a text that is not empty.
LineCount(text) == 1 + Cardinality({i \in 1..Len(text) : text[i] = "LF"})

\* C29 as stated: the returned text has exactly one line per input file.
C29_OneLinePerFile ==
    (gcs.pc = "returned" /\ gcs.filenames # <<>>) =>
        LineCount(gcs.returned) = Len(gcs.filenames)

\* C29: move_files_to_bucket makes exactly one result entry per input file,
\* in input order, and returns them joined by newlines: a failed command or
\* a missing gsutil is recorded as the entry of its file and the files
\* after it are still attempted; an entry says "Successfully moved" only if
\* the command of its own file succeeded.  The entry of a failed command
\* holds gsutil's stderr and so has as many lines as that text has, so the
\* returned text has at least one line per file and more when a stderr text
\* has a newline inside it.
C29_OneEntryPerFile ==
    /\ Len(gcs.results) = Len(gcs.ran)
    /\ Len(gcs.results) <= Len(gcs.filenames)
    /\ gcs.pc = "returned" => Len(gcs.results) = Len(gcs.filenames)
    /\ \A i \in 1..Len(gcs.results) :
          /\ gcs.ran[i] = "ok" <=> gcs.results[i] = <<"Successfully moved", gcs.filenames[i]>>
          /\ gcs.ran[i] = "failed" =>
                 /\ gcs.results[i][1] = "Failed to move"
                 /\ gcs.results[i][2] = gcs.filenames[i]
          /\ gcs.ran[i] = "no_gsutil" => gcs.results[i] = <<"Error: gsutil command not found">>
    /\ (gcs.pc = "returned" /\ gcs.filenames # <<>>) =>
          /\ LineCount(gcs.returned) >= Len(gcs.filenames)
          /\ LineCount(gcs.returned) = Len(gcs.filenames) <=>
                 \A i \in 1..Len(gcs.results) : LineCount(gcs.results[i]) = 1

\* C29 witness: the first file failed with a stderr text of two lines, the
\* second was still attempted and moved; two entries, three lines returned.
C29_Witness ==
    /\ gcs.pc = "returned"
    /\ gcs.filenames = <<"a.log", "b.tmp">>
    /\ gcs.ran = <<"failed", "ok">>
    /\ gcs.results = << <<"Failed to move", "a.log", "Error:", "x", "LF", "x">>,
                        <<"Successfully moved", "b.tmp">> >>
    /\ LineCount(gcs.returned) = 3


(***************************************************************************)
(* src/scripts/sync_gemini_config.py on one target .gemini directory.      *)
(* A JSON value is a string or a dict; a dict is a function from its keys. *)
(***************************************************************************)

Str(v) == [type |-> "str", val |-> v, items |-> <<>>]
Dict(f) == [type |-> "dict", val |-> "", items |-> f]

\* The entries a server can have: a string, or a dict of settings.
ServerDicts ==
    {Dict(f) : f \in UNION {[ks -> {"old", "new"}] : ks \in SUBSET {"command", "env"}}}

ServerValues == {Str("old"), Str("new")} \cup
    {d \in ServerDicts : "env" \in DOMAIN d.items => d.items["env"] = "old"}

\* The mcpServers dicts.
McpConfigs == UNION {[ks -> ServerValues] : ks \in SUBSET {"s1", "s2"}}

\* A settings.json: absent, JSON, or text json.load rejects (comments, a
\* trailing comma, a truncated write).  theme stands for every top-level
\* setting other than mcpServers; has_mcp says whether mcpServers is there.
SettingsFiles ==
    {[kind |-> "absent", theme |-> "none", has_mcp |-> FALSE, mcp |-> <<>>]}
    \cup {[kind |-> k, theme |-> t, has_mcp |-> FALSE, mcp |-> <<>>] :
             k \in {"json", "unparsable"}, t \in {"none", "dark"}}
    \cup {[kind |-> k, theme |-> t, has_mcp |-> TRUE, mcp |-> m] :
             k \in {"json", "unparsable"}, t \in {"none", "dark"}, m \in McpConfigs}

\* load_json: {} when the file is missing or does not parse.
LoadJson(file) ==
    IF file.kind = "json"
    THEN [theme |-> file.theme, has_mcp |-> file.has_mcp, mcp |-> file.mcp]
    ELSE [theme |-> "none", has_mcp |-> FALSE, mcp |-> <<>>]

\* deep_merge(target, source), on the items of two dicts
RECURSIVE DeepMerge(_, _)
DeepMerge(target, source) ==
    [key \in DOMAIN target \cup DOMAIN source |->
        IF key \notin DOMAIN source THEN target[key]
        ELSE IF /\ source[key].type = "dict"
                /\ key \in DOMAIN target
                /\ target[key].type = "dict"
             THEN Dict([k \in DOMAIN target[key].items \cup DOMAIN source[key].items |->
                           IF k \in DOMAIN source[key].items
                           THEN source[key].items[k]
                           ELSE target[key].items[k]])
             ELSE source[key]]

\* main finds the target directory: the source's mcpServers, whether the
\* source GEMINI.md exists, and what the target directory holds.
SyncStart(mcp_config, source_md, settings, target_md) ==
    /\ sync.pc = "off"
    /\ sync' = [pc |-> "settings", runs |-> 0, mcp_config |-> mcp_config,
                source_md |-> source_md,
                settings |-> settings, md |-> target_md,
                settings0 |-> settings, md0 |-> target_md,
                settings1 |-> settings, md1 |-> target_md]
    /\ UNCHANGED <<relay, sender, decoder, gemini, storage, mover, gate, pipe, monitor, gcs>>

\* sync_settings(target_dir, mcp_config)
SyncSettings ==
    /\ sync.pc = "settings"
    /\ LET current == LoadJson(sync.settings)
           merged == DeepMerge(IF current.has_mcp THEN current.mcp ELSE <<>>,
                               sync.mcp_config)
       IN  sync' = [sync EXCEPT
                  !.pc = "md",
                  !.settings = [kind |-> "json", theme |-> current.theme,
                                has_mcp |-> TRUE, mcp |-> merged]]
    /\ UNCHANGED <<relay, sender, decoder, gemini, storage, mover, gate, pipe, monitor, gcs>>

\* sync_gemini_md(target_dir); the run of main ends.
SyncGeminiMd ==
    /\ sync.pc = "md"
    /\ sync' = [sync EXCEPT
           !.pc = "done",
           !.runs = @ + 1,
           !.md = IF sync.source_md /\ sync.md = "absent" THEN "copy of source" ELSE @,
           !.settings1 = IF sync.runs = 0 THEN sync.settings ELSE @,
           !.md1 = IF sync.runs = 0
                   THEN (IF sync.source_md /\ sync.md = "absent" THEN "copy of source" ELSE sync.md)
                   ELSE @]
    /\ UNCHANGED <<relay, sender, decoder, gemini, storage, mover, gate, pipe, monitor, gcs>>

\* The script is run a second time.
SyncAgain ==
    /\ sync.pc = "done"
    /\ sync.runs = 1
    /\ sync' = [sync EXCEPT !.pc = "settings"]
    /\ UNCHANGED <<relay, sender, decoder, gemini, storage, mover, gate, pipe, monitor, gcs>>

SyncNext ==
    \/ /\ sync.pc = "off"
       /\ \E mcp_config \in McpConfigs : \E source_md \in BOOLEAN :
          \E settings \in SettingsFiles : \E target_md \in {"absent", "own text"} :
              SyncStart(mcp_config, source_md, settings, target_md)
    \/ SyncSettings
    \/ SyncGeminiMd
    \/ SyncAgain

SyncSpec == Init /\ [][SyncNext]_vars

\* C30: the sync never destroys target data.  An existing target GEMINI.md
\* is left as it was; of the target's settings.json only the mcpServers
\* entries whose keys the source has are changed: every other top-level
\* setting the file held and every mcpServers entry only the target had are
\* still there, unchanged; and a second run leaves what the first run left.
C30_TargetDataKept ==
    sync.pc = "done" =>
        /\ sync.md0 # "absent" => sync.md = sync.md0
        /\ sync.settings.theme = sync.settings0.theme
        /\ sync.settings0.has_mcp =>
               \A key \in DOMAIN sync.settings0.mcp :
                   key \notin DOMAIN sync.mcp_config =>
                       /\ key \in DOMAIN sync.settings.mcp
                       /\ sync.settings.mcp[key] = sync.settings0.mcp[key]
        /\ sync.runs = 2 => (sync.settings = sync.settings1 /\ sync.md = sync.md1)

====
